---------------------------- MODULE Spec2Model ----------------------------
(***************************************************************************)
(* Liquid2 front end: the string decoders (src/src/unescape.rs and         *)
(* unescape_string of src/src/parser.rs), the template parser              *)
(* (src/src/parser.rs) and the canonical printer (src/src/ast.rs).         *)
(*                                                                         *)
(* Strings are sequences of byte values (unescape.rs works on bytes) or of *)
(* code points (parser.rs works on chars).  Indices are kept 0-based as in *)
(* the source; Byte(bs, i) reads bs[i].                                    *)
(* A Rust panic (index out of bounds, unwrap on None/Err, failed assert!,  *)
(* todo!, unreachable!) is the result kind "Abort".                        *)
(***************************************************************************)
EXTENDS Integers, Sequences, FiniteSets, TLC

VARIABLES
    bytes,      \* unescape: the input `value.as_bytes()`
    index,      \* unescape: the loop cursor
    rv,         \* unescape: the output byte vector
    ustate,     \* unescape: "Run" | "Ok" | "SyntaxError" | "Abort"
    str_pair,   \* parse_primitive: the string-literal pair [rule, text]
    str_out,    \* parse_primitive: its result, once computed
    src_pairs,  \* parse: the pairs of the template, ending with EOI
    template,   \* parse: its result, once computed
    printed,    \* to_string: the tokens of the printed template, once printed
    printed_pairs, \* Liquid::parse(Rule::liquid, ..) of the printed template
    reparsed,   \* parse of the printed template: its result, once computed
    jp_pairs,   \* parse_jsonpath_query: the pairs of the query's segments
    jp_query,   \* parse_jsonpath_query: its result, once computed
    jp_singular, \* is_singular of the query returned, once computed
    jp_printed, \* Query::to_string() of the query returned: its tokens
    jp_again,   \* parse_jsonpath_query of the printed query, once computed
    lx_pairs,   \* tokenize: Liquid::parse(Rule::markup, source), pairs or failure
    lx_markups, \* tokenize: its result, once computed
    lx_printed, \* the string forms of the markups returned, concatenated
    lx_again,   \* tokenize of the printed source: its result, once computed
    num_pair,   \* parse_number: the number pair
    num_out     \* parse_number: the results of both parsers, once computed

uvars == <<bytes, index, rv, ustate>>
svars == <<str_pair, str_out>>
pvars == <<src_pairs, template, printed, printed_pairs, reparsed>>
qvars == <<jp_pairs, jp_query, jp_singular, jp_printed, jp_again>>
lvars == <<lx_pairs, lx_markups, lx_printed, lx_again>>
nvars == <<num_pair, num_out>>
vars == <<bytes, index, rv, ustate, str_pair, str_out, src_pairs, template,
          printed, printed_pairs, reparsed, jp_pairs, jp_query, jp_singular,
          jp_printed, jp_again,
          lx_pairs, lx_markups, lx_printed, lx_again, num_pair, num_out>>

---------------------------------------------------------------------------
(* Bounds of the model. *)

MaxChunks == 3
MaxLen == 5

---------------------------------------------------------------------------
(* Byte values named in unescape.rs. *)

Backslash == 92
Quote == 34
Slash == 47
LetterB == 98
LetterF == 102
LetterN == 110
LetterR == 114
LetterT == 116
LetterU == 117
PlusSign == 43
Backspace == 8
FormFeed == 12
LineFeed == 10
CarriageReturn == 13
Tab == 9

Byte(bs, i) == bs[i + 1]

\* &bs[a..b]
Slice(bs, a, b) == SubSeq(bs, a + 1, b)

IsHexDigit(b) == (b >= 48 /\ b <= 57) \/ (b >= 65 /\ b <= 70) \/ (b >= 97 /\ b <= 102)

HexValue(b) ==
    IF b >= 48 /\ b <= 57 THEN b - 48
    ELSE IF b >= 65 /\ b <= 70 THEN b - 55
    ELSE b - 87

RECURSIVE HexNumber(_)
HexNumber(s) ==
    IF s = <<>> THEN 0
    ELSE 16 * HexNumber(SubSeq(s, 1, Len(s) - 1)) + HexValue(s[Len(s)])

\* u32::from_str_radix(s, 16): an optional leading '+', then one or more
\* hexadecimal digits (upper or lower case).  "Err" otherwise.
from_str_radix(s) ==
    LET digits == IF Len(s) > 1 /\ s[1] = PlusSign THEN Tail(s) ELSE s
    IN  IF digits # <<>> /\ \A k \in 1..Len(digits) : IsHexDigit(digits[k])
        THEN [kind |-> "Ok", value |-> HexNumber(digits)]
        ELSE [kind |-> "Err", value |-> 0]

\* str::from_utf8 accepts: every lead byte is followed by its continuation
\* bytes.  (A slice of a valid UTF-8 string is invalid only when it cuts a
\* multi-byte character.)
RECURSIVE from_utf8_ok(_)
from_utf8_ok(s) ==
    IF s = <<>> THEN TRUE
    ELSE LET b == s[1]
             n == IF b < 128 THEN 1
                  ELSE IF b >= 194 /\ b <= 223 THEN 2
                  ELSE IF b >= 224 /\ b <= 239 THEN 3
                  ELSE IF b >= 240 /\ b <= 244 THEN 4
                  ELSE 0
         IN  /\ n > 0
             /\ Len(s) >= n
             /\ \A k \in 2..n : s[k] >= 128 /\ s[k] <= 191
             /\ from_utf8_ok(SubSeq(s, n + 1, Len(s)))

\* char::encode_utf8
encode_utf8(cp) ==
    IF cp < 128 THEN <<cp>>
    ELSE IF cp < 2048 THEN <<192 + (cp \div 64), 128 + (cp % 64)>>
    ELSE IF cp < 65536
         THEN <<224 + (cp \div 4096), 128 + ((cp \div 64) % 64), 128 + (cp % 64)>>
    ELSE <<240 + (cp \div 262144), 128 + ((cp \div 4096) % 64),
           128 + ((cp \div 64) % 64), 128 + (cp % 64)>>

is_high_surrogate(code_point) == code_point >= 55296 /\ code_point <= 56319

is_low_surrogate(code_point) == code_point >= 56320 /\ code_point <= 57343

\* char::from_u32(c) is Some(_)
IsScalarValue(c) == c >= 0 /\ c <= 1114111 /\ ~(c >= 55296 /\ c <= 57343)

\* parse_hex_digits: str::from_utf8(digits).unwrap(), then from_str_radix
\* with its error mapped to a syntax error.
parse_hex_digits(digits) ==
    IF ~from_utf8_ok(digits) THEN [kind |-> "Abort", value |-> 0]
    ELSE LET r == from_str_radix(digits)
         IN  IF r.kind = "Ok" THEN r ELSE [kind |-> "SyntaxError", value |-> 0]

DecodeFail(kind) == [kind |-> kind, code_point |-> 0, index |-> 0]

\* The mutant of decode_hex_char that resumes one byte early after a pair.
decode_hex_char_early(bs, idx) ==
    LET length == Len(bs)
        i == idx + 1
        hi == parse_hex_digits(Slice(bs, i, i + 4))
        lo == parse_hex_digits(Slice(bs, i + 6, i + 10))
    IN  IF idx + 4 >= length THEN DecodeFail("SyntaxError")
        ELSE IF hi.kind # "Ok" THEN DecodeFail(hi.kind)
        ELSE IF is_low_surrogate(hi.value) THEN DecodeFail("SyntaxError")
        ELSE IF is_high_surrogate(hi.value)
             THEN IF ~(i + 9 < length /\ Byte(bs, i + 4) = Backslash
                                      /\ Byte(bs, i + 5) = LetterU)
                  THEN DecodeFail("SyntaxError")
                  ELSE IF lo.kind # "Ok" THEN DecodeFail(lo.kind)
                  ELSE IF ~is_low_surrogate(lo.value) THEN DecodeFail("SyntaxError")
                  ELSE [kind |-> "Ok",
                        code_point |-> 65536 + (((hi.value % 1024) * 1024)
                                                + (lo.value % 1024)),
                        index |-> i + 8]
        ELSE [kind |-> "Ok", code_point |-> hi.value, index |-> i + 3]

\* decode_hex_char(bytes, index): index is the position of the 'u'.
\* x & 0x03FF is x % 1024, x << 10 is x * 1024, and the bitwise or of a
\* multiple of 1024 with a value below 1024 is their sum.
decode_hex_char(bs, idx) ==
    LET length == Len(bs)
        i == idx + 1
        hi == parse_hex_digits(Slice(bs, i, i + 4))
        lo == parse_hex_digits(Slice(bs, i + 6, i + 10))
    IN  IF idx + 4 >= length THEN DecodeFail("SyntaxError")
        ELSE IF hi.kind # "Ok" THEN DecodeFail(hi.kind)
        ELSE IF is_low_surrogate(hi.value) THEN DecodeFail("SyntaxError")
        ELSE IF is_high_surrogate(hi.value)
             THEN IF ~(i + 9 < length /\ Byte(bs, i + 4) = Backslash
                                      /\ Byte(bs, i + 5) = LetterU)
                  THEN DecodeFail("SyntaxError")
                  ELSE IF lo.kind # "Ok" THEN DecodeFail(lo.kind)
                  ELSE IF ~is_low_surrogate(lo.value) THEN DecodeFail("SyntaxError")
                  ELSE [kind |-> "Ok",
                        code_point |-> 65536 + (((hi.value % 1024) * 1024)
                                                + (lo.value % 1024)),
                        index |-> i + 9]
        ELSE [kind |-> "Ok", code_point |-> hi.value, index |-> i + 3]

\* encode_code_point
encode_code_point(code_point) ==
    IF code_point < 31 THEN [kind |-> "SyntaxError", buf |-> <<>>]
    ELSE IF ~IsScalarValue(code_point) THEN [kind |-> "Abort", buf |-> <<>>]
    ELSE [kind |-> "Ok", buf |-> encode_utf8(code_point)]

\* The mutant of ShortEscapes that decodes \n to a carriage return.
ShortEscapes_cr ==
    Quote :> Quote @@ Backslash :> Backslash @@ Slash :> Slash
    @@ LetterB :> Backspace @@ LetterF :> FormFeed @@ LetterN :> CarriageReturn
    @@ LetterR :> CarriageReturn @@ LetterT :> Tab

\* The bytes pushed for the one-letter escapes of the match in unescape.
ShortEscapes ==
    Quote :> Quote @@ Backslash :> Backslash @@ Slash :> Slash
    @@ LetterB :> Backspace @@ LetterF :> FormFeed @@ LetterN :> LineFeed
    @@ LetterR :> CarriageReturn @@ LetterT :> Tab

---------------------------------------------------------------------------
(* unescape (unescape.rs): one action per path through one iteration of    *)
(* the `while index < length` loop, and one for the return after it.       *)

UFail(kind) == [kind |-> kind, index |-> 0, rv |-> <<>>]

\* The `b'u'` arm: decode_hex_char(..)?, encode_code_point(..)?, append.
unescape_hex(bs, idx, out) ==
    LET d == decode_hex_char(bs, idx)
        e == encode_code_point(d.code_point)
    IN  IF d.kind # "Ok" THEN UFail(d.kind)
        ELSE IF e.kind # "Ok" THEN UFail(e.kind)
        ELSE [kind |-> "Run", index |-> d.index, rv |-> out \o e.buf]

\* The body of the loop for a backslash at idx: `index += 1`, the match on
\* bytes[index], and the trailing `index += 1`.
unescape_escape(bs, idx, out) ==
    LET i == idx + 1
        m == IF i >= Len(bs) THEN UFail("Abort")
             ELSE IF Byte(bs, i) \in DOMAIN ShortEscapes
                  THEN [kind |-> "Run", index |-> i,
                        rv |-> Append(out, ShortEscapes[Byte(bs, i)])]
             ELSE IF Byte(bs, i) = LetterU THEN unescape_hex(bs, i, out)
             ELSE UFail("SyntaxError")
    IN  IF m.kind = "Run" THEN [m EXCEPT !.index = m.index + 1] ELSE m

UApply(r) ==
    /\ ustate' = r.kind
    /\ index' = IF r.kind = "Run" THEN r.index ELSE index
    /\ rv' = IF r.kind = "Run" THEN r.rv ELSE rv
    /\ UNCHANGED bytes

AtEscape == ustate = "Run" /\ index < Len(bytes) /\ Byte(bytes, index) = Backslash

\* else-branch: rv.push(b); index += 1
UnescapePush ==
    /\ ustate = "Run" /\ index < Len(bytes)
    /\ Byte(bytes, index) # Backslash
    /\ UApply([kind |-> "Run", index |-> index + 1,
               rv |-> Append(rv, Byte(bytes, index))])

\* a backslash that is the last byte: bytes[index] is out of bounds
UnescapeDangling ==
    /\ AtEscape /\ index + 1 >= Len(bytes)
    /\ UApply(unescape_escape(bytes, index, rv))

UnescapeShort ==
    /\ AtEscape /\ index + 1 < Len(bytes)
    /\ Byte(bytes, index + 1) \in DOMAIN ShortEscapes
    /\ UApply(unescape_escape(bytes, index, rv))

UnescapeHex ==
    /\ AtEscape /\ index + 1 < Len(bytes)
    /\ Byte(bytes, index + 1) = LetterU
    /\ UApply(unescape_escape(bytes, index, rv))

UnescapeUnknown ==
    /\ AtEscape /\ index + 1 < Len(bytes)
    /\ Byte(bytes, index + 1) \notin (DOMAIN ShortEscapes) \cup {LetterU}
    /\ UApply(unescape_escape(bytes, index, rv))

\* return Ok(String::from_utf8(rv).unwrap())
UnescapeReturn ==
    /\ ustate = "Run" /\ index >= Len(bytes)
    /\ ustate' = IF from_utf8_ok(rv) THEN "Ok" ELSE "Abort"
    /\ UNCHANGED <<bytes, index, rv>>

RECURSIVE unescape_from(_, _, _)

\* The `while index < length` loop of unescape from `idx` on, with the
\* return after it
unescape_from(bs, idx, out) ==
    IF idx >= Len(bs)
    THEN [kind |-> IF from_utf8_ok(out) THEN "Ok" ELSE "Abort", value |-> out]
    ELSE IF Byte(bs, idx) = Backslash
    THEN IF unescape_escape(bs, idx, out).kind # "Run"
         THEN [kind |-> unescape_escape(bs, idx, out).kind, value |-> <<>>]
         ELSE unescape_from(bs, unescape_escape(bs, idx, out).index,
                            unescape_escape(bs, idx, out).rv)
    ELSE unescape_from(bs, idx + 1, Append(out, Byte(bs, idx)))

\* unescape(value, span)
unescape(value) == unescape_from(value, 0, <<>>)

\* The inputs: concatenations of at most MaxChunks of these pieces of a
\* string: plain characters, escapes, and malformed escapes.
Esc(a, b, c, d) == <<Backslash, LetterU, a, b, c, d>>

Chunks ==
    { <<97>>,                     \* a
      <<195, 169>>,               \* e-acute, two bytes
      <<Backslash, LetterN>>,     \* \n
      <<Backslash, Backslash>>,   \* \\
      <<Backslash, Quote>>,       \* \"
      <<Backslash, 120>>,         \* \x
      <<Backslash>>,              \* a lone backslash
      Esc(48, 48, 52, 49),        \* \u0041
      Esc(48, 48, 49, 102),       \* \u001f
      Esc(48, 48, 50, 48),        \* \u0020
      Esc(48, 48, 48, 48),        \* \u0000
      Esc(68, 56, 48, 48),        \* \uD800
      Esc(68, 66, 70, 70),        \* \uDBFF
      Esc(68, 67, 48, 48),        \* \uDC00
      Esc(68, 70, 70, 70),        \* \uDFFF
      <<Backslash, LetterU, 48, 48, 48>>,         \* \u000
      <<Backslash, LetterU, PlusSign, 48, 52, 49>> \* \u+041
    }

RECURSIVE Flatten(_)
Flatten(ss) == IF ss = <<>> THEN <<>> ELSE Head(ss) \o Flatten(Tail(ss))

UnescapeInputs ==
    { Flatten(cs) : cs \in UNION { [1..n -> Chunks] : n \in 0..MaxChunks } }

\* A component that takes no part in a specification rests in these states.
UnescapeIdle == bytes = <<>> /\ index = 0 /\ rv = <<>> /\ ustate = "Idle"
StringIdle == str_pair = [rule |-> "none", text |-> <<>>] /\ str_out = [kind |-> "None"]
LexerIdle ==
    /\ lx_pairs = [kind |-> "None"]
    /\ lx_markups = [kind |-> "None"]
    /\ lx_printed = [kind |-> "None"]
    /\ lx_again = [kind |-> "None"]
NumberIdle == num_pair = [kind |-> "None"] /\ num_out = [kind |-> "None"]
QueryIdle ==
    /\ jp_pairs = <<>> /\ jp_query = [kind |-> "None"] /\ jp_singular = [kind |-> "None"]
    /\ jp_printed = [kind |-> "None"] /\ jp_again = [kind |-> "None"]
ParseIdle ==
    /\ src_pairs = <<>> /\ template = [kind |-> "None"]
    /\ printed = [kind |-> "None"] /\ printed_pairs = [kind |-> "None"]
    /\ reparsed = [kind |-> "None"]

UnescapeInit ==
    /\ bytes \in UnescapeInputs
    /\ index = 0
    /\ rv = <<>>
    /\ ustate = "Run"
    /\ StringIdle
    /\ ParseIdle
    /\ QueryIdle
    /\ LexerIdle
    /\ NumberIdle

UnescapeNext ==
    /\ \/ UnescapePush
       \/ UnescapeDangling
       \/ UnescapeShort
       \/ UnescapeHex
       \/ UnescapeUnknown
       \/ UnescapeReturn
    /\ UNCHANGED <<svars, pvars, qvars, lvars, nvars>>

SpecUnescape == UnescapeInit /\ [][UnescapeNext]_vars

---------------------------------------------------------------------------
(* Properties of unescape.                                                 *)

\* bs holds four hexadecimal digits at i..i+3
FourHexAt(bs, i) ==
    i + 4 <= Len(bs) /\ \A k \in i..(i + 3) : IsHexDigit(Byte(bs, k))

\* bs holds the escape \uXXXX at i
HexEscapeAt(bs, i) ==
    /\ i + 6 <= Len(bs)
    /\ Byte(bs, i) = Backslash /\ Byte(bs, i + 1) = LetterU
    /\ FourHexAt(bs, i + 2)

EscapeValue(bs, i) == HexNumber(Slice(bs, i + 2, i + 6))

HighEscapeAt(bs, i) == HexEscapeAt(bs, i) /\ is_high_surrogate(EscapeValue(bs, i))

LowEscapeAt(bs, i) == HexEscapeAt(bs, i) /\ is_low_surrogate(EscapeValue(bs, i))

PairAt(bs, i) == i >= 0 /\ HighEscapeAt(bs, i) /\ LowEscapeAt(bs, i + 6)

PairValue(bs, i) ==
    65536 + (((EscapeValue(bs, i) % 1024) * 1024) + (EscapeValue(bs, i + 6) % 1024))

\* The malformed escapes C8 lists, for a backslash at i.
MalformedAt(bs, i) ==
    \/ i + 1 >= Len(bs)                                   \* trailing backslash
    \/ /\ i + 1 < Len(bs)
       /\ Byte(bs, i + 1) \notin (DOMAIN ShortEscapes) \cup {LetterU}
    \/ /\ i + 1 < Len(bs) /\ Byte(bs, i + 1) = LetterU
       /\ \/ ~FourHexAt(bs, i + 2)                        \* fewer than 4 digits
          \/ LowEscapeAt(bs, i)                           \* low without high
          \/ HighEscapeAt(bs, i) /\ ~LowEscapeAt(bs, i + 6)

\* C8: unescape is total: no step of it aborts, and each malformed escape
\* it comes to (a trailing lone backslash, \u with fewer than four
\* hexadecimal digits, an unrecognized escape letter, a low surrogate with
\* no high surrogate before it, a high surrogate not followed by a low one)
\* ends it with a SyntaxError.
C8_UnescapeTotal ==
    [][ /\ ustate' # "Abort"
        /\ (AtEscape /\ MalformedAt(bytes, index)) => ustate' = "SyntaxError" ]_vars

\* C9: an escape \uXXXX of a code point below 0x20 is a SyntaxError, and
\* one of a non-surrogate code point from 0x20 up is accepted.
C9_ControlEscapes ==
    [][ (AtEscape /\ HexEscapeAt(bytes, index)
            /\ ~is_high_surrogate(EscapeValue(bytes, index))
            /\ ~is_low_surrogate(EscapeValue(bytes, index)))
        => IF EscapeValue(bytes, index) < 32
           THEN ustate' = "SyntaxError"
           ELSE /\ ustate' = "Run"
                /\ index' = index + 6
                /\ rv' = rv \o encode_utf8(EscapeValue(bytes, index)) ]_vars

\* C10: a high-surrogate escape immediately followed by a low-surrogate
\* escape is decoded to the one code point
\* 0x10000 + (((hi & 0x3FF) << 10) | (lo & 0x3FF)), and decoding resumes at
\* the byte right after the second escape (12 bytes on), also when the pair
\* ends the string.
C10_SurrogatePair ==
    [][ (AtEscape /\ PairAt(bytes, index))
        => /\ ustate' = "Run"
           /\ index' = index + 12
           /\ rv' = rv \o encode_utf8(PairValue(bytes, index)) ]_vars

\* C10's case: a string that ends with a surrogate pair was decoded to the
\* end, and the output ends with the pair's code point.
C10_Witness ==
    /\ ustate = "Ok"
    /\ index = Len(bytes)
    /\ PairAt(bytes, index - 12)
    /\ Len(rv) >= 4
    /\ SubSeq(rv, Len(rv) - 3, Len(rv)) = encode_utf8(PairValue(bytes, index - 12))

\* The standard JSON escape mapping (RFC 8259, section 7) of one byte of a
\* UTF-8 string: quote, backslash and the control characters are escaped,
\* with \u00xx where there is no short escape.
HexDigit(d) == IF d < 10 THEN 48 + d ELSE 87 + d

escape_byte(b) ==
    CASE b = Quote -> <<Backslash, Quote>>
      [] b = Backslash -> <<Backslash, Backslash>>
      [] b = Backspace -> <<Backslash, LetterB>>
      [] b = FormFeed -> <<Backslash, LetterF>>
      [] b = LineFeed -> <<Backslash, LetterN>>
      [] b = CarriageReturn -> <<Backslash, LetterR>>
      [] b = Tab -> <<Backslash, LetterT>>
      [] b < 32 /\ b \notin {Backspace, FormFeed, LineFeed, CarriageReturn, Tab}
            -> <<Backslash, LetterU, 48, 48, HexDigit(b \div 16), HexDigit(b % 16)>>
      [] OTHER -> <<b>>

escape(s) == Flatten([k \in 1..Len(s) |-> escape_byte(s[k])])

\* The strings s of the check: at most MaxChunks of these characters.
EscapeSources ==
    { Flatten(cs) : cs \in UNION { [1..n -> { <<97>>, <<195, 169>>, <<LineFeed>>,
                                             <<Backslash>>, <<Quote>>, <<0>>, <<31>> }]
                                  : n \in 0..MaxChunks } }

EscapeTable == [s \in EscapeSources |-> escape(s)]

\* s has no control character without a short escape
ShortEscaped(s) ==
    \A k \in 1..Len(s) : s[k] >= 32 \/ s[k] \in {Backspace, FormFeed, LineFeed, CarriageReturn, Tab}

EscapedInputs == { EscapeTable[s] : s \in EscapeSources }

\* unescape has returned, and its input is the escape of a string of the check
EscapeDecoded ==
    /\ ustate \in {"Ok", "SyntaxError", "Abort"}
    /\ bytes \in EscapedInputs

\* C11: unescape is a left inverse of standard JSON escaping: for every
\* string s, unescape(escape(s)) returns Ok(s).
C11_LeftInverse ==
    EscapeDecoded
        => \A s \in EscapeSources :
               bytes = EscapeTable[s] => (ustate = "Ok" /\ rv = s)

\* C11, amended: for every string s with no control character below 0x20
\* other than \b, \f, \n, \r and \t, unescape(escape(s)) returns Ok(s).
C11_LeftInverseShort ==
    EscapeDecoded
        => \A s \in EscapeSources :
               (ShortEscaped(s) /\ bytes = EscapeTable[s]) => (ustate = "Ok" /\ rv = s)

\* C11's case: the escape of a string with a line feed, a quote and a
\* backslash was decoded to that string.
C11_Witness ==
    /\ ustate = "Ok"
    /\ rv = <<LineFeed, Quote, Backslash>>
    /\ bytes = escape(rv)

---------------------------------------------------------------------------
(* unescape_string and the string arms of parse_primitive (parser.rs).     *)
(* Here a string is a sequence of chars (code points).                     *)

SingleQuote == 39

Aborted == [kind |-> "Abort"]

\* `let x = e; body` is written Let({ body : x \in {e} }): the value of body
\* with x bound to the value of e.
Let(S) == CHOOSE v \in S : TRUE

\* The `'u'` arm of unescape_string with index at the 'u': returns the
\* decoded char and the index of the last char consumed.
unescape_string_hex(chars, idx) ==
    LET length == Len(chars)
        i == idx + 1
        first == from_str_radix(Slice(chars, i, i + 4))
        second == from_str_radix(Slice(chars, i + 6, i + 10))
        joined == i + 5 < length /\ Byte(chars, i + 4) = Backslash
                                 /\ Byte(chars, i + 5) = LetterU
        codepoint == IF joined
                     THEN 65536 + (((first.value % 1024) * 1024)
                                   + (second.value % 1024))
                     ELSE first.value
    IN  IF i + 4 > length THEN Aborted                 \* get(..).unwrap()
        ELSE IF first.kind # "Ok" THEN Aborted         \* from_str_radix(..).unwrap()
        ELSE IF joined /\ i + 10 > length THEN Aborted
        ELSE IF joined /\ second.kind # "Ok" THEN Aborted
        ELSE IF ~IsScalarValue(codepoint) THEN Aborted \* char::from_u32(..).unwrap()
        ELSE [kind |-> "Ok", char |-> codepoint,
              index |-> (IF joined THEN i + 6 ELSE i) + 3]

\* The `while index < length` loop of unescape_string from index idx with
\* output out.
RECURSIVE unescape_string_loop(_, _, _)
unescape_string_loop(chars, idx, out) ==
    IF idx >= Len(chars) THEN [kind |-> "Ok", value |-> out]
    ELSE IF Byte(chars, idx) # Backslash
         THEN unescape_string_loop(chars, idx + 1, Append(out, Byte(chars, idx)))
    ELSE LET i == idx + 1
         IN  IF i >= Len(chars) THEN Aborted            \* chars[index]
             ELSE IF Byte(chars, i) \in DOMAIN ShortEscapes
                  THEN unescape_string_loop(
                           chars, i + 1, Append(out, ShortEscapes[Byte(chars, i)]))
             ELSE IF Byte(chars, i) = LetterU
                  THEN LET h == unescape_string_hex(chars, i)
                       IN  IF h.kind # "Ok" THEN Aborted
                           ELSE unescape_string_loop(
                                    chars, h.index + 1, Append(out, h.char))
             ELSE Aborted                               \* unreachable!()

unescape_string(value) == unescape_string_loop(value, 0, <<>>)

\* str::replace("\\'", "'")
RECURSIVE replace_escaped_quote(_)
replace_escaped_quote(chars) ==
    IF chars = <<>> THEN <<>>
    ELSE IF Len(chars) >= 2 /\ chars[1] = Backslash /\ chars[2] = SingleQuote
         THEN <<SingleQuote>> \o replace_escaped_quote(SubSeq(chars, 3, Len(chars)))
    ELSE <<chars[1]>> \o replace_escaped_quote(Tail(chars))

\* parse_primitive, the arms for quoted strings.
parse_primitive_string(pair) ==
    Let({ IF u.kind # "Ok" THEN Aborted
          ELSE [kind |-> "Ok", value |-> [type |-> "StringLiteral", value |-> u.value]] :
          u \in {unescape_string(
                     IF pair.rule \in {"single_quoted", "multiline_single_quoted"}
                     THEN replace_escaped_quote(pair.text)
                     ELSE pair.text)} })

\* The text of a quoted string as the grammar admits it: characters and
\* well-formed escapes, a high surrogate always followed by a low one.
StringChunks ==
    { <<97>>,                                 \* a
      <<233>>,                                \* e-acute
      <<Backslash, LetterN>>,                 \* \n
      <<Backslash, Backslash>>,               \* \\
      Esc(48, 48, 52, 49),                    \* \u0041
      Esc(48, 48, 52, 50),                    \* \u0042
      Esc(48, 48, 101, 57),                   \* \u00e9
      Esc(68, 56, 51, 68) \o Esc(68, 69, 48, 48)   \* \uD83D\uDE00
    }

StringPairs ==
    { [rule |-> r, text |-> Flatten(cs)] :
        r \in {"double_quoted"},
        cs \in UNION { [1..n -> StringChunks] : n \in 0..MaxChunks } }
    \cup
    { [rule |-> r, text |-> Flatten(cs)] :
        r \in {"single_quoted"},
        cs \in UNION { [1..n -> (StringChunks \cup {<<Backslash, SingleQuote>>})]
                        : n \in 0..(MaxChunks - 1) } }

StringInit ==
    /\ str_pair \in StringPairs
    /\ str_out = [kind |-> "None"]
    /\ UnescapeIdle
    /\ LexerIdle
    /\ NumberIdle
    /\ ParseIdle
    /\ QueryIdle

ParseString ==
    /\ str_out.kind = "None"
    /\ str_out' = parse_primitive_string(str_pair)
    /\ UNCHANGED str_pair

StringNext == ParseString /\ UNCHANGED <<uvars, pvars, qvars, lvars, nvars>>

SpecString == StringInit /\ [][StringNext]_vars

---------------------------------------------------------------------------
(* Properties of unescape_string.                                          *)

\* The decoding the claim describes: every \uXXXX stands for its own code
\* point, except a high surrogate followed by a low one, which together
\* stand for one.
RECURSIVE Decoded(_)
Decoded(cs) ==
    IF cs = <<>> THEN <<>>
    ELSE IF cs[1] # Backslash THEN <<cs[1]>> \o Decoded(Tail(cs))
    ELSE IF PairAt(cs, 0)
         THEN <<PairValue(cs, 0)>> \o Decoded(SubSeq(cs, 13, Len(cs)))
    ELSE IF HexEscapeAt(cs, 0)
         THEN <<EscapeValue(cs, 0)>> \o Decoded(SubSeq(cs, 7, Len(cs)))
    ELSE <<ShortEscapes[cs[2]]>> \o Decoded(SubSeq(cs, 3, Len(cs)))

\* text holds two \uXXXX escapes in a row of which the first starts at an
\* even number of backslashes
RECURSIVE TwoEscapesInARow(_)
TwoEscapesInARow(cs) ==
    IF Len(cs) < 12 THEN FALSE
    ELSE IF cs[1] # Backslash THEN TwoEscapesInARow(Tail(cs))
    ELSE IF HexEscapeAt(cs, 0)
         THEN HexEscapeAt(cs, 6) \/ TwoEscapesInARow(SubSeq(cs, 7, Len(cs)))
    ELSE TwoEscapesInARow(SubSeq(cs, 3, Len(cs)))

\* C7: a double-quoted literal with two \uXXXX escapes in a row is decoded
\* escape by escape ("a\u0041\u0042" is "aAB"); two escapes make one code
\* point only when they are a high and a low surrogate.
C7_EscapesDecodedSeparately ==
    (str_out.kind # "None" /\ str_pair.rule = "double_quoted"
        /\ TwoEscapesInARow(str_pair.text))
    => /\ str_out.kind = "Ok"
       /\ str_out.value = [type |-> "StringLiteral", value |-> Decoded(str_pair.text)]

---------------------------------------------------------------------------
(* The template parser (parser.rs).                                        *)
(*                                                                         *)
(* A pair of the recognizer is a record: `rule` is its Rule, `text` its    *)
(* as_str(), `inner` its into_inner().  For a tag pair the whitespace      *)
(* controls and the tag name, which the source reads off the front and the *)
(* back of into_inner(), are the fields `wc` (left, right) and `name`, and *)
(* `inner` holds what lies between them.  An Option is a sequence of       *)
(* length 0 or 1.  A function of the source that returns Result<T, _> and  *)
(* advances the stream returns [kind, value, rest] here.                   *)

Ok(v, rest) == [kind |-> "Ok", value |-> v, rest |-> rest]

\* LiquidError::ext: the error of a tag extension; nothing in lexer.rs,
\* parser.rs or unescape.rs builds one
ExtError == [kind |-> "ExtError"]

SyntaxError == [kind |-> "SyntaxError"]

\* Whitespace::from_str
Whitespace_from_str(str) ==
    CASE str = "+" -> "Plus"
      [] str = "-" -> "Minus"
      [] str = "~" -> "Smart"
      [] str = "" -> "Default"

\* `if line { Whitespace::Minus } else { Whitespace::from_str(..) }`
WcSide(str, line) == IF line THEN "Minus" ELSE Whitespace_from_str(str)

\* standard_tags(): name -> TagMeta
standard_tags ==
    "assign" :> [block |-> FALSE, end |-> {}]
    @@ "capture" :> [block |-> TRUE, end |-> {"capture"}]
    @@ "case" :> [block |-> TRUE, end |-> {"case", "when", "else"}]
    @@ "cycle" :> [block |-> FALSE, end |-> {}]
    @@ "decrement" :> [block |-> FALSE, end |-> {}]
    @@ "increment" :> [block |-> FALSE, end |-> {}]
    @@ "echo" :> [block |-> FALSE, end |-> {}]
    @@ "for" :> [block |-> TRUE, end |-> {"for", "else"}]
    @@ "break" :> [block |-> FALSE, end |-> {}]
    @@ "continue" :> [block |-> FALSE, end |-> {}]
    @@ "if" :> [block |-> TRUE, end |-> {"if", "elsif", "else"}]
    @@ "unless" :> [block |-> TRUE, end |-> {"unless", "elsif", "else"}]
    @@ "include" :> [block |-> FALSE, end |-> {}]
    @@ "render" :> [block |-> FALSE, end |-> {}]
    @@ "liquid" :> [block |-> FALSE, end |-> {}]

TagRules == {"standard_tag", "line_standard_tag_expr", "end_tag", "line_end_tag"}

\* is_tag
is_tag(pair, name) == pair.rule \in TagRules /\ pair.name = name

\* Iterator<Item = Result<T, _>>::collect(): the first failure in order, or
\* the values
collect(results) ==
    IF \E k \in DOMAIN results : results[k].kind # "Ok"
    THEN results[CHOOSE k \in DOMAIN results :
                    /\ results[k].kind # "Ok"
                    /\ \A j \in 1..(k - 1) : results[j].kind = "Ok"]
    ELSE [kind |-> "Ok", value |-> [k \in DOMAIN results |-> results[k].value]]

\* QueryParser::parse_selector, the arms for names and the wildcard.  A name
\* is a sequence of code points.
parse_selector(selector) ==
    CASE selector.rule \in {"double_quoted", "single_quoted"}
            -> Let({ IF u.kind # "Ok" THEN Aborted
                     ELSE [kind |-> "Ok", value |-> [type |-> "Name", name |-> u.value]] :
                     u \in {unescape_string(IF selector.rule = "single_quoted"
                                            THEN replace_escaped_quote(selector.text)
                                            ELSE selector.text)} })
      [] selector.rule = "wildcard_selector"
            -> [kind |-> "Ok", value |-> [type |-> "Wild"]]
      [] selector.rule = "member_name_shorthand"
            -> [kind |-> "Ok", value |-> [type |-> "Name", name |-> selector.text]]
      [] OTHER -> Aborted                              \* unreachable!()

\* QueryParser::parse_segment_inner
parse_segment_inner(segment) ==
    CASE segment.rule = "bracketed_selection"
            -> collect([k \in 1..Len(segment.inner) |-> parse_selector(segment.inner[k])])
      [] segment.rule = "wildcard_selector"
            -> [kind |-> "Ok", value |-> <<[type |-> "Wild"]>>]
      [] segment.rule = "member_name_shorthand"
            -> [kind |-> "Ok", value |-> <<[type |-> "Name", name |-> segment.text]>>]
      [] OTHER -> Aborted                              \* unreachable!()

\* QueryParser::parse_segment
parse_segment(segment) ==
    CASE segment.rule \in {"child_segment", "implicit_root_segment",
                           "descendant_segment", "name_segment",
                           "implicit_root_name_segment", "index_segment"}
            -> Let({ IF selectors.kind # "Ok" THEN selectors
                     ELSE [kind |-> "Ok",
                           value |-> [type |-> IF segment.rule = "descendant_segment"
                                               THEN "Recursive" ELSE "Child",
                                      selectors |-> selectors.value]] :
                     selectors \in
                       {IF segment.rule \in {"child_segment", "implicit_root_segment",
                                             "descendant_segment"}
                        THEN parse_segment_inner(segment.inner[1])
                        ELSE collect(<<parse_selector(segment.inner[1])>>)} })
      [] segment.rule = "EOI" -> [kind |-> "Ok", value |-> [type |-> "Eoi"]]
      [] OTHER -> Aborted                              \* unreachable!()

\* QueryParser::parse
query_parser_parse(segments) ==
    Let({ IF parsed.kind # "Ok" THEN parsed
          ELSE [kind |-> "Ok", value |-> [segments |-> parsed.value]] :
          parsed \in {collect([k \in 1..Len(segments) |-> parse_segment(segments[k])])} })

\* parse_primitive: Ok(Primitive) or an abort, nothing of the stream read
parse_primitive(expression) ==
    CASE expression.rule \in {"double_quoted", "multiline_double_quoted",
                              "single_quoted", "multiline_single_quoted"}
            -> parse_primitive_string(expression)
      [] expression.rule = "true_literal"
            -> [kind |-> "Ok", value |-> [type |-> "TrueLiteral"]]
      [] expression.rule = "false_literal"
            -> [kind |-> "Ok", value |-> [type |-> "FalseLiteral"]]
      [] expression.rule = "null"
            -> [kind |-> "Ok", value |-> [type |-> "NullLiteral"]]
      [] expression.rule = "query"
            -> Let({ IF path.kind # "Ok" THEN path
                     ELSE [kind |-> "Ok",
                           value |-> [type |-> "Query", path |-> path.value]] :
                     path \in {query_parser_parse(expression.inner)} })
      [] OTHER -> Aborted                              \* unreachable!()

CompareOperators ==
    "==" :> "Eq" @@ "!=" :> "Ne" @@ "<>" :> "Ne" @@ "<=" :> "Le"
    @@ ">=" :> "Ge" @@ "<" :> "Lt" @@ ">" :> "Gt"

MembershipOperators ==
    "in" :> "In" @@ "not in" :> "NotIn" @@ "contains" :> "Contains"
    @@ "not contains" :> "NotContains"

\* parse_compare_expression / parse_membership_expression: left, operator
\* and right in the order the source reads them
parse_binary_expression(expression, type, operators) ==
    Let({ IF read.kind # "Ok" THEN read
          ELSE [kind |-> "Ok",
                value |-> [type |-> type, left |-> read.value[1],
                           operator |-> read.value[2], right |-> read.value[3]]] :
          read \in {collect(<<parse_primitive(expression.inner[1]),
                              IF expression.inner[2].text \in DOMAIN operators
                              THEN [kind |-> "Ok",
                                    value |-> operators[expression.inner[2].text]]
                              ELSE Aborted,                 \* unreachable!()
                              parse_primitive(expression.inner[3])>>)} })

RECURSIVE parse_logical_or_expression(_)
RECURSIVE parse_logical_and_expression(_)
RECURSIVE parse_basic_expression(_)
RECURSIVE fold_logical(_, _, _, _)

\* parse_logical_or_expression (operator Or, operands by
\* parse_logical_and_expression: wholeOr) and parse_logical_and_expression
\* (operator And, operands by parse_basic_expression): `rest` are the
\* operand pairs still to read, `acc` is `let mut left` read so far.
fold_logical(rest, operator, acc, wholeOr) ==
    IF rest = <<>> \/ acc.kind # "Ok" THEN acc
    ELSE fold_logical(
             Tail(rest), operator,
             Let({ IF right.kind # "Ok" THEN right
                   ELSE [kind |-> "Ok",
                         value |-> [type |-> "Logical", left |-> acc.value,
                                    operator |-> operator, right |-> right.value]] :
                   right \in {IF wholeOr THEN parse_logical_and_expression(Head(rest))
                              ELSE parse_basic_expression(Head(rest))} }),
             wholeOr)

parse_logical_or_expression(expression) ==
    fold_logical(Tail(expression.inner), "Or",
                 parse_logical_and_expression(expression.inner[1]), TRUE)

parse_logical_and_expression(expression) ==
    fold_logical(Tail(expression.inner), "And",
                 parse_basic_expression(expression.inner[1]), FALSE)

parse_basic_expression(expression) ==
    CASE expression.rule \in {"grouped_expr", "line_grouped_expr"}
            -> parse_logical_or_expression(expression.inner[1])
      [] expression.rule \in {"compare_expr", "line_compare_expr",
                              "membership_expr", "line_membership_expr"}
            -> parse_binary_expression(
                   expression,
                   IF expression.rule \in {"compare_expr", "line_compare_expr"}
                   THEN "Comparison" ELSE "Membership",
                   IF expression.rule \in {"compare_expr", "line_compare_expr"}
                   THEN CompareOperators ELSE MembershipOperators)
      [] OTHER
            -> Let({ IF e.kind # "Ok" THEN e
                     ELSE [kind |-> "Ok",
                           value |-> [type |-> IF expression.rule \in
                                                   {"logical_not", "line_logical_not"}
                                               THEN "LogicalNot" ELSE "Primitive",
                                      expr |-> e.value]] :
                     e \in {IF expression.rule \in {"logical_not", "line_logical_not"}
                            THEN parse_basic_expression(expression.inner[1])
                            ELSE parse_primitive(expression)} })

parse_boolean_expression(expression) ==
    parse_logical_or_expression(expression.inner[1])

\* The k-th pair of an iterator as an Option: `it.next()` after k - 1 pairs
\* were taken.  `it.next().and_then(|expr| Some(f(expr))).transpose()` is
\* collect([j \in 1..Len(nth(it, k)) |-> f(nth(it, k)[j])]).
nth(it, k) == IF Len(it) < k THEN <<>> ELSE <<it[k]>>

\* parse_common_argument (symbol = FALSE) and parse_keyword_or_symbol
\* (symbol = TRUE)
parse_common_argument(expression, symbol) ==
    CASE expression.rule \in {"positional_argument", "line_positional_argument"}
         /\ symbol
            -> [kind |-> "Ok",
                value |-> [value |-> <<>>, name |-> <<expression.inner[1].text>>]]
      [] expression.rule \in {"positional_argument", "line_positional_argument"}
            -> Let({ IF v.kind # "Ok" THEN v
                     ELSE [kind |-> "Ok", value |-> [value |-> <<v.value>>, name |-> <<>>]] :
                     v \in {parse_primitive(expression.inner[1])} })
      [] expression.rule \in {"keyword_argument", "line_keyword_argument"}
            -> Let({ IF v.kind # "Ok" THEN v
                     ELSE [kind |-> "Ok",
                           value |-> [value |-> <<v.value>>,
                                      name |-> <<expression.inner[1].text>>]] :
                     v \in {parse_primitive(expression.inner[2])} })
      [] OTHER -> Aborted                              \* unreachable!()

\* parse_common_arguments (symbol = FALSE), parse_keywords_and_symbols
\* (symbol = TRUE)
parse_common_arguments(expression, symbol) ==
    collect([k \in 1..Len(expression.inner) |->
                parse_common_argument(expression.inner[k], symbol)])

parse_filter(expression) ==
    Let({ IF args.kind # "Ok" THEN args
          ELSE [kind |-> "Ok",
                value |-> [name |-> expression.inner[1].text, args |-> args.value]] :
          args \in {collect([j \in 1..Len(nth(expression.inner, 2)) |->
                               parse_common_arguments(nth(expression.inner, 2)[j],
                                                      FALSE)])} })

parse_filters(expression) ==
    collect([k \in 1..Len(expression.inner) |-> parse_filter(expression.inner[k])])

\* parse_inline_condition: the condition, then `it.next().unwrap()`, which
\* is an alternative (followed by its filters and by the tail filters) or
\* the tail filters
parse_inline_condition(expression) ==
    Let({ IF condition.kind # "Ok" THEN condition
          ELSE IF Len(expression.inner) < 2 THEN Aborted   \* it.next().unwrap()
          ELSE Let({ IF read.kind # "Ok" THEN read
                     ELSE [kind |-> "Ok",
                           value |-> [expr |-> condition.value,
                                      alternative |-> read.value[1],
                                      alternative_filters |-> read.value[2],
                                      tail_filters |-> read.value[3]]] :
                     read \in
                       {CASE expression.inner[2].rule \in {"alternative", "line_alternative"}
                               -> collect(<<
                                    collect(<<parse_primitive(expression.inner[2].inner[1])>>),
                                    collect([j \in 1..Len(nth(expression.inner[2].inner, 2)) |->
                                        parse_filters(nth(expression.inner[2].inner, 2)[j])]),
                                    collect([j \in 1..Len(nth(expression.inner, 3)) |->
                                        parse_filters(nth(expression.inner, 3)[j])])>>)
                          [] expression.inner[2].rule \in {"tail_filters", "line_tail_filters"}
                               -> collect(<<[kind |-> "Ok", value |-> <<>>],
                                            [kind |-> "Ok", value |-> <<>>],
                                            collect(<<parse_filters(expression.inner[2])>>)>>)
                          [] OTHER -> Aborted} }) :     \* unreachable!()
          condition \in {parse_boolean_expression(expression.inner[1])} })

\* parse_filtered_expression: left, filters and condition in the order the
\* source reads them
parse_filtered_expression(expression) ==
    Let({ IF read.kind # "Ok" THEN read
          ELSE [kind |-> "Ok",
                value |-> [left |-> read.value[1], filters |-> read.value[2],
                           condition |-> read.value[3]]] :
          read \in {collect(<<
                      parse_primitive(expression.inner[1]),
                      collect([j \in 1..Len(nth(expression.inner, 2)) |->
                                  parse_filters(nth(expression.inner, 2)[j])]),
                      collect([j \in 1..Len(nth(expression.inner, 3)) |->
                                  parse_inline_condition(nth(expression.inner, 3)[j])])>>)} })

RECURSIVE parse_markup(_, _)
RECURSIVE parse_block(_, _, _)
RECURSIVE parse_named_block(_, _, _)
RECURSIVE parse_block_until(_, _, _)
RECURSIVE parse_block_until_taking(_, _, _)
RECURSIVE parse_branch_tags(_, _, _, _, _)
RECURSIVE parse_standard_tag(_, _, _)

\* parse_block: `block` is the Vec built so far
parse_block(stream, end, block) ==
    IF stream # <<>> /\ Head(stream).rule # end
    THEN Let({ IF node.kind # "Ok" THEN node
               ELSE parse_block(node.rest, end, Append(block, node.value)) :
               node \in {parse_markup(Head(stream), Tail(stream))} })
    ELSE Ok(block, stream)

parse_named_block(stream, end, block) ==
    IF /\ stream # <<>>
       /\ Head(stream).rule \in {"end_tag", "line_end_tag"}
       /\ Head(stream).name = end
    THEN Ok(block, stream)
    ELSE IF stream = <<>> THEN Aborted            \* stream.next().unwrap()
    ELSE Let({ IF node.kind # "Ok" THEN node
               ELSE parse_named_block(node.rest, end, Append(block, node.value)) :
               node \in {parse_markup(Head(stream), Tail(stream))} })

\* A parse_block_until that takes the terminating tag from the stream
parse_block_until_taking(stream, end, block) ==
    IF /\ stream # <<>>
       /\ Head(stream).rule \in TagRules
       /\ Head(stream).name \in end
    THEN Ok(block, Tail(stream))
    ELSE IF stream = <<>> THEN Aborted
    ELSE Let({ IF node.kind # "Ok" THEN node
               ELSE parse_block_until_taking(node.rest, end, Append(block, node.value)) :
               node \in {parse_markup(Head(stream), Tail(stream))} })

parse_block_until(stream, end, block) ==
    IF /\ stream # <<>>
       /\ Head(stream).rule \in TagRules
       /\ Head(stream).name \in end
    THEN Ok(block, stream)
    ELSE IF stream = <<>> THEN Aborted            \* stream.next().unwrap()
    ELSE Let({ IF node.kind # "Ok" THEN node
               ELSE parse_block_until(node.rest, end, Append(block, node.value)) :
               node \in {parse_markup(Head(stream), Tail(stream))} })

parse_end_block_tag(stream, name, line) ==
    IF stream = <<>> THEN Aborted                 \* stream.next().unwrap()
    ELSE IF Head(stream).rule \notin {"end_tag", "line_end_tag"} THEN Aborted  \* assert!
    ELSE IF Head(stream).name # name THEN Aborted                             \* assert!
    ELSE Ok([left |-> WcSide(Head(stream).wc[1], line),
             right |-> WcSide(Head(stream).wc[2], line)], Tail(stream))

\* The `Some(ElseTag { .. })` / `None` of parse_else_tag
parse_else_tag(stream, name, line) ==
    IF stream # <<>> /\ is_tag(Head(stream), "else")
    THEN Let({ IF block.kind # "Ok" THEN block
               ELSE Ok(<<[whitespace_control |->
                             [left |-> WcSide(Head(stream).wc[1], line),
                              right |-> WcSide(Head(stream).wc[2], line)],
                          block |-> block.value]>>, block.rest) :
               block \in {parse_named_block(Tail(stream), name, <<>>)} })
    ELSE Ok(<<>>, stream)

\* The mutant of parse_elsif_tag that leaves the body of the branch out of
\* the ElsifTag.
parse_elsif_tag_bodiless(tag, stream, block_end, line) ==
    Let({ IF condition.kind # "Ok" THEN condition ELSE
    Let({ IF block.kind # "Ok" THEN block
          ELSE Ok([whitespace_control |->
                      [left |-> WcSide(tag.wc[1], line),
                       right |-> WcSide(tag.wc[2], line)],
                   condition |-> condition.value,
                   block |-> <<>>], block.rest)
        : block \in {parse_block_until(stream, block_end, <<>>)} })
        : condition \in {parse_boolean_expression(tag.inner[1])} })

\* LiquidParser::parse_elsif_tag
parse_elsif_tag(tag, stream, block_end, line) ==
    Let({ IF condition.kind # "Ok" THEN condition ELSE
    Let({ IF block.kind # "Ok" THEN block
          ELSE Ok([whitespace_control |->
                      [left |-> WcSide(tag.wc[1], line),
                       right |-> WcSide(tag.wc[2], line)],
                   condition |-> condition.value,
                   block |-> block.value], block.rest)
        : block \in {parse_block_until(stream, block_end, <<>>)} })
        : condition \in {parse_boolean_expression(tag.inner[1])} })

parse_when_tag(tag, stream, line) ==
    Let({ IF args.kind # "Ok" THEN args ELSE
    Let({ IF block.kind # "Ok" THEN block
          ELSE Ok([whitespace_control |->
                      [left |-> WcSide(tag.wc[1], line),
                       right |-> WcSide(tag.wc[2], line)],
                   args |-> args.value,
                   block |-> block.value], block.rest)
        : block \in {parse_block_until(stream, standard_tags["case"].end, <<>>)} })
        : args \in {collect([k \in 1..Len(tag.inner) |-> parse_primitive(tag.inner[k])])} })

\* `while stream.peek().is_some_and(|p| self.is_tag(p, name)) { .. }` of
\* parse_if_tag and parse_unless_tag (name "elsif") and of parse_case_tag
\* (name "when"): `tags` is the Vec built so far
parse_branch_tags(stream, name, block_end, line, tags) ==
    IF stream # <<>> /\ is_tag(Head(stream), name)
    THEN Let({ IF tag.kind # "Ok" THEN tag
               ELSE parse_branch_tags(tag.rest, name, block_end, line,
                                      Append(tags, tag.value)) :
               tag \in {IF name = "when"
                        THEN parse_when_tag(Head(stream), Tail(stream), line)
                        ELSE parse_elsif_tag(Head(stream), Tail(stream),
                                             block_end, line)} })
    ELSE Ok(tags, stream)

\* parse_if_tag (type "IfTag", name "if") and parse_unless_tag (type
\* "UnlessTag", name "unless"); `tag` stands for the iterator `it`
parse_if_tag(type, name, wc, tag, stream, line) ==
    Let({ IF condition.kind # "Ok" THEN condition ELSE
    Let({ IF block.kind # "Ok" THEN block ELSE
    Let({ IF alternatives.kind # "Ok" THEN alternatives ELSE
    Let({ IF default.kind # "Ok" THEN default ELSE
    Let({ IF end_wc.kind # "Ok" THEN end_wc
          ELSE Ok([type |-> type,
                   whitespace_control |->
                      <<[left |-> wc, right |-> WcSide(tag.wc[2], line)], end_wc.value>>,
                   condition |-> condition.value,
                   block |-> block.value,
                   alternatives |-> alternatives.value,
                   default |-> default.value], end_wc.rest)
        : end_wc \in {parse_end_block_tag(default.rest, name, line)} })
        : default \in {parse_else_tag(alternatives.rest, name, line)} })
        : alternatives \in {parse_branch_tags(block.rest, "elsif",
                                              standard_tags[name].end, line, <<>>)} })
        : block \in {parse_block_until(stream, standard_tags[name].end, <<>>)} })
        : condition \in {parse_boolean_expression(tag.inner[1])} })

parse_capture_tag(wc, tag, stream, line) ==
    Let({ IF block.kind # "Ok" THEN block ELSE
    Let({ IF end_wc.kind # "Ok" THEN end_wc
          ELSE Ok([type |-> "CaptureTag",
                   whitespace_control |->
                      <<[left |-> wc, right |-> WcSide(tag.wc[2], line)], end_wc.value>>,
                   identifier |-> tag.inner[1].text,
                   block |-> block.value], end_wc.rest)
        : end_wc \in {parse_end_block_tag(block.rest, "capture", line)} })
        : block \in {parse_named_block(stream, "capture", <<>>)} })

parse_case_tag(wc, tag, stream, line) ==
    Let({ IF arg.kind # "Ok" THEN arg ELSE
    Let({ IF whens.kind # "Ok" THEN whens ELSE
    Let({ IF default.kind # "Ok" THEN default ELSE
    Let({ IF end_wc.kind # "Ok" THEN end_wc
          ELSE Ok([type |-> "CaseTag",
                   whitespace_control |->
                      <<[left |-> wc, right |-> WcSide(tag.wc[2], line)], end_wc.value>>,
                   arg |-> arg.value,
                   whens |-> whens.value,
                   default |-> default.value], end_wc.rest)
        : end_wc \in {parse_end_block_tag(default.rest, "case", line)} })
        : default \in {parse_else_tag(whens.rest, "case", line)} })
          \* Discard any content between `case` and `when`/`else`.
        : whens \in {parse_branch_tags(IF stream # <<>> /\ Head(stream).rule = "content"
                                       THEN Tail(stream) ELSE stream,
                                       "when", {}, line, <<>>)} })
        : arg \in {parse_primitive(tag.inner[1])} })

RECURSIVE for_tag_arguments_lax(_, _)

\* The mutant of for_tag_arguments that passes over an argument of another
\* name.
for_tag_arguments_lax(args, acc) ==
    IF args = <<>> THEN [kind |-> "Ok", value |-> acc]
    ELSE IF Head(args).name = <<>> THEN SyntaxError
    ELSE CASE Head(args).name[1] = "limit"
                -> IF Head(args).value = <<>> THEN Aborted
                   ELSE for_tag_arguments_lax(Tail(args),
                                              [acc EXCEPT !.limit = Head(args).value])
           [] Head(args).name[1] = "offset"
                -> IF Head(args).value = <<>> THEN Aborted
                   ELSE for_tag_arguments_lax(Tail(args),
                                              [acc EXCEPT !.offset = Head(args).value])
           [] Head(args).name[1] = "reversed"
                -> IF Head(args).value # <<>> THEN SyntaxError
                   ELSE for_tag_arguments_lax(Tail(args), [acc EXCEPT !.reversed = TRUE])
           [] OTHER -> for_tag_arguments_lax(Tail(args), acc)

RECURSIVE for_tag_arguments(_, _)

\* The `for arg in args` loop of parse_for_tag: `acc` holds limit, offset
\* and reversed as assigned so far
for_tag_arguments(args, acc) ==
    IF args = <<>> THEN [kind |-> "Ok", value |-> acc]
    ELSE IF Head(args).name = <<>> THEN SyntaxError
    ELSE CASE Head(args).name[1] = "limit"
                -> IF Head(args).value = <<>> THEN Aborted   \* arg.value.unwrap()
                   ELSE for_tag_arguments(Tail(args),
                                          [acc EXCEPT !.limit = Head(args).value])
           [] Head(args).name[1] = "offset"
                -> IF Head(args).value = <<>> THEN Aborted   \* arg.value.unwrap()
                   ELSE for_tag_arguments(Tail(args),
                                          [acc EXCEPT !.offset = Head(args).value])
           [] Head(args).name[1] = "reversed"
                -> IF Head(args).value # <<>> THEN SyntaxError
                   ELSE for_tag_arguments(Tail(args), [acc EXCEPT !.reversed = TRUE])
           [] OTHER -> SyntaxError

parse_for_tag(wc, tag, stream, line) ==
    Let({ IF iterable.kind # "Ok" THEN iterable ELSE
    Let({ IF parsed.kind # "Ok" THEN parsed ELSE
    Let({ IF args.kind # "Ok" THEN args ELSE
    Let({ IF block.kind # "Ok" THEN block ELSE
    Let({ IF default.kind # "Ok" THEN default ELSE
    Let({ IF end_wc.kind # "Ok" THEN end_wc
          ELSE Ok([type |-> "ForTag",
                   whitespace_control |->
                      <<[left |-> wc, right |-> WcSide(tag.wc[2], line)], end_wc.value>>,
                   name |-> tag.inner[1].text,
                   iterable |-> iterable.value,
                   limit |-> args.value.limit,
                   offset |-> args.value.offset,
                   reversed |-> args.value.reversed,
                   block |-> block.value,
                   default |-> default.value], end_wc.rest)
        : end_wc \in {parse_end_block_tag(default.rest, "for", line)} })
        : default \in {parse_else_tag(block.rest, "for", line)} })
        : block \in {parse_block_until(stream, standard_tags["for"].end, <<>>)} })
        : args \in {for_tag_arguments(
                        parsed.value,
                        [limit |-> <<>>, offset |-> <<>>, reversed |-> FALSE])} })
        : parsed \in {IF /\ Len(tag.inner) >= 3
                         /\ tag.inner[3].rule \in {"for_tag_arguments",
                                                   "line_for_tag_arguments"}
                      THEN parse_common_arguments(tag.inner[3], TRUE)
                      ELSE [kind |-> "Ok", value |-> <<>>]} })
        : iterable \in {parse_primitive(tag.inner[2])} })

\* parse_output_statement (type "Output", k = 1), parse_echo_tag (type
\* "EchoTag", k = 1) and parse_assign_tag (type "AssignTag", k = 2): the
\* k-th pair is the filtered expression
parse_expression_tag(type, wc, tag, k, stream, line) ==
    Let({ IF expression.kind # "Ok" THEN expression
          ELSE IF type = "AssignTag"
          THEN Ok([type |-> type,
                   whitespace_control |-> [left |-> wc, right |-> WcSide(tag.wc[2], line)],
                   identifier |-> tag.inner[1].text,
                   expression |-> expression.value], stream)
          ELSE Ok([type |-> type,
                   whitespace_control |-> [left |-> wc, right |-> WcSide(tag.wc[2], line)],
                   expression |-> expression.value], stream)
        : expression \in {parse_filtered_expression(tag.inner[k])} })

\* The mutant of parse_include_tag_arguments that does not set repeat.
parse_include_tag_arguments_once(arguments) ==
    IF arguments.inner = <<>>
    THEN [kind |-> "Ok",
          value |-> [repeat |-> FALSE, variable |-> <<>>, alias |-> <<>>, args |-> <<>>]]
    ELSE IF arguments.inner[1].rule
              \notin {"include_with", "line_include_with", "include_for", "line_include_for",
                      "common_arguments", "line_common_arguments"}
    THEN Aborted
    ELSE
    Let({ IF read.kind # "Ok" THEN read
          ELSE [kind |-> "Ok",
                value |-> [repeat |-> FALSE,
                           variable |-> read.value[1],
                           alias |-> IF /\ arguments.inner[1].rule
                                            \notin {"common_arguments", "line_common_arguments"}
                                        /\ Len(arguments.inner[1].inner) >= 2
                                     THEN <<arguments.inner[1].inner[2].text>> ELSE <<>>,
                           args |-> IF read.value[2] = <<>> THEN <<>>
                                    ELSE <<read.value[2][Len(read.value[2])]>>]] :
          read \in {Let({ collect(<<
                      IF arguments.inner[1].rule \in {"common_arguments", "line_common_arguments"}
                      THEN [kind |-> "Ok", value |-> <<>>]
                      ELSE collect(<<parse_primitive(arguments.inner[1].inner[1])>>),
                      collect([j \in 1..Len(common) |->
                                  parse_common_arguments(arguments.inner[common[j]], FALSE)])>>) :
                      common \in {SelectSeq(<<1, 2>>, LAMBDA k :
                                     /\ k <= Len(arguments.inner)
                                     /\ arguments.inner[k].rule
                                          \in {"common_arguments", "line_common_arguments"})} })} })

\* LiquidParser::parse_include_tag_arguments: `read` holds the variable of
\* the with or for clause and the argument lists of the common_arguments
\* pairs, in the order the source parses them; the last list is args
parse_include_tag_arguments(arguments) ==
    IF arguments.inner = <<>>
    THEN [kind |-> "Ok",
          value |-> [repeat |-> FALSE, variable |-> <<>>, alias |-> <<>>, args |-> <<>>]]
    ELSE IF arguments.inner[1].rule
              \notin {"include_with", "line_include_with", "include_for", "line_include_for",
                      "common_arguments", "line_common_arguments"}
    THEN Aborted                                       \* unreachable!()
    ELSE
    Let({ IF read.kind # "Ok" THEN read
          ELSE [kind |-> "Ok",
                value |-> [repeat |-> arguments.inner[1].rule
                                        \in {"include_for", "line_include_for"},
                           variable |-> read.value[1],
                           alias |-> IF /\ arguments.inner[1].rule
                                            \notin {"common_arguments", "line_common_arguments"}
                                        /\ Len(arguments.inner[1].inner) >= 2
                                     THEN <<arguments.inner[1].inner[2].text>> ELSE <<>>,
                           args |-> IF read.value[2] = <<>> THEN <<>>
                                    ELSE <<read.value[2][Len(read.value[2])]>>]] :
          read \in {Let({ collect(<<
                      IF arguments.inner[1].rule \in {"common_arguments", "line_common_arguments"}
                      THEN [kind |-> "Ok", value |-> <<>>]
                      ELSE collect(<<parse_primitive(arguments.inner[1].inner[1])>>),
                      collect([j \in 1..Len(common) |->
                                  parse_common_arguments(arguments.inner[common[j]], FALSE)])>>) :
                      common \in {SelectSeq(<<1, 2>>, LAMBDA k :
                                     /\ k <= Len(arguments.inner)
                                     /\ arguments.inner[k].rule
                                          \in {"common_arguments", "line_common_arguments"})} })} })

\* LiquidParser::parse_include_tag (type "IncludeTag") and parse_render_tag
\* (type "RenderTag"), which differ in how they read the target
parse_include_tag(type, wc, tag, stream, line) ==
    Let({ IF target.kind # "Ok" THEN target ELSE
    Let({ IF arguments.kind # "Ok" THEN arguments
          ELSE Ok([type |-> type,
                   whitespace_control |-> [left |-> wc, right |-> WcSide(tag.wc[2], line)],
                   target |-> target.value,
                   repeat |-> arguments.value.repeat,
                   variable |-> arguments.value.variable,
                   alias |-> arguments.value.alias,
                   args |-> arguments.value.args], stream)
        : arguments \in {IF /\ Len(tag.inner) >= 2
                            /\ tag.inner[2].rule \in {"include_tag_arguments",
                                                      "line_include_tag_arguments"}
                         THEN parse_include_tag_arguments(tag.inner[2])
                         ELSE [kind |-> "Ok",
                               value |-> [repeat |-> FALSE, variable |-> <<>>,
                                          alias |-> <<>>, args |-> <<>>]]} })
        : target \in {IF type = "IncludeTag" THEN parse_primitive(tag.inner[1])
                      ELSE Let({ IF u.kind # "Ok" THEN Aborted
                                 ELSE [kind |-> "Ok",
                                       value |-> [type |-> "StringLiteral", value |-> u.value]] :
                                 u \in {unescape_string(tag.inner[1].text)} })} })

RECURSIVE liquid_tag_block(_, _)

\* The `while next.as_rule() != Rule::WC` loop of parse_liquid_tag: `stream`
\* holds the pairs before the closing WC, `block` is the Vec built so far
liquid_tag_block(stream, block) ==
    IF stream = <<>> THEN [kind |-> "Ok", value |-> block]
    ELSE IF Head(stream).rule = "line_standard_tag_expr"
    THEN Let({ IF node.kind # "Ok" THEN node
               ELSE liquid_tag_block(node.rest, Append(block, node.value)) :
               node \in {parse_standard_tag(Head(stream), Tail(stream), TRUE)} })
    ELSE Aborted                                       \* todo!(), unreachable!()

\* LiquidParser::parse_liquid_tag
parse_liquid_tag(wc, tag, stream) ==
    Let({ IF block.kind # "Ok" THEN block
          ELSE Ok([type |-> "LiquidTag",
                   whitespace_control |->
                      [left |-> wc, right |-> Whitespace_from_str(tag.wc[2])],
                   block |-> block.value], stream) :
          block \in {liquid_tag_block(tag.inner, <<>>)} })

\* parse_standard_tag (line = FALSE) and parse_line_expression (line =
\* TRUE), the arms for the tags without a template name or a nested
\* line block
parse_standard_tag(tag, stream, line) ==
    CASE tag.name \in {"assign", "echo"}
            -> parse_expression_tag(IF tag.name = "assign" THEN "AssignTag" ELSE "EchoTag",
                                    WcSide(tag.wc[1], line), tag,
                                    IF tag.name = "assign" THEN 2 ELSE 1, stream, line)
      [] tag.name = "capture" -> parse_capture_tag(WcSide(tag.wc[1], line), tag, stream, line)
      [] tag.name = "case" -> parse_case_tag(WcSide(tag.wc[1], line), tag, stream, line)
      [] tag.name = "for" -> parse_for_tag(WcSide(tag.wc[1], line), tag, stream, line)
      [] tag.name \in {"break", "continue"}
            -> Ok([type |-> IF tag.name = "break" THEN "BreakTag" ELSE "ContinueTag",
                   whitespace_control |-> [left |-> WcSide(tag.wc[1], line),
                                           right |-> WcSide(tag.wc[2], line)]], stream)
      [] tag.name \in {"if", "unless"}
            -> parse_if_tag(IF tag.name = "if" THEN "IfTag" ELSE "UnlessTag",
                            tag.name, WcSide(tag.wc[1], line), tag, stream, line)
      [] tag.name \in {"include", "render"}
            -> parse_include_tag(IF tag.name = "include" THEN "IncludeTag" ELSE "RenderTag",
                                 WcSide(tag.wc[1], line), tag, stream, line)
      [] tag.name = "liquid" /\ ~line
            -> parse_liquid_tag(Whitespace_from_str(tag.wc[1]), tag, stream)
      [] OTHER -> Aborted                              \* unreachable!()

parse_markup(markup, stream) ==
    CASE markup.rule = "content"
            -> Ok([type |-> "Content", text |-> markup.text], stream)
      [] markup.rule = "output_statement"
            -> parse_expression_tag("Output", Whitespace_from_str(markup.wc[1]),
                                    markup, 1, stream, FALSE)
      [] markup.rule \in {"standard_tag", "line_standard_tag_expr"}
            -> parse_standard_tag(markup, stream, markup.rule = "line_standard_tag_expr")
      [] markup.rule = "common_tag" -> Aborted         \* todo!()
      [] OTHER -> Aborted                              \* unreachable!()

\* LiquidParser::parse on the pairs of a template the recognizer accepted
parse(stream) ==
    Let({ IF block.kind # "Ok" THEN [kind |-> block.kind]
          ELSE [kind |-> "Ok", value |-> [liquid |-> block.value]] :
          block \in {parse_block(stream, "EOI", <<>>)} })

---------------------------------------------------------------------------
(* The pairs of the recognizer.  The grammar file (liquid2.pest) is not    *)
(* part of the sources; the shapes below are the ones parser.rs reads:     *)
(* which inner pair it takes at which position, and which rule it expects  *)
(* there.                                                                   *)

\* A query of one name, such as `a`, the name given as code points (97 is
\* a): the implicit root name segment with its member name
QueryPair(name) ==
    [rule |-> "query", text |-> name,
     inner |-> <<[rule |-> "implicit_root_name_segment", text |-> name,
                  inner |-> <<[rule |-> "member_name_shorthand", text |-> name,
                               inner |-> <<>>]>>]>>]

\* boolean_expression > logical or > logical and+ > basic expression+
BooleanPair(ands) ==
    [rule |-> "boolean_expression", text |-> "",
     inner |-> <<[rule |-> "logical_or_expr", text |-> "",
                  inner |-> [k \in 1..Len(ands) |->
                                [rule |-> "logical_and_expr", text |-> "",
                                 inner |-> ands[k]]]]>>]

TagPair(rule, name, wc, inner) ==
    [rule |-> rule, name |-> name, wc |-> wc, inner |-> inner, text |-> ""]

\* The pair at position pos of a template whose pos-th piece of markup is
\* of the given kind; a tag with a condition has the pair `condition`.
\* Names, texts and whitespace control markers differ by position.
MarkupPair(kind, pos, condition) ==
    LET Names == <<"a", "b", "c", "d", "e", "f", "g", "h">>
        Texts == <<"t1", "t2", "t3", "t4", "t5", "t6", "t7", "t8">>
        wc == IF pos % 2 = 1 THEN <<"", "">> ELSE <<"-", "~">>
        identifier == [rule |-> "identifier", text |-> Names[pos], inner |-> <<>>]
        EndNames == "endif" :> "if" @@ "endunless" :> "unless" @@ "endfor" :> "for"
                    @@ "endcase" :> "case" @@ "endcapture" :> "capture"
    IN  CASE kind = "text"
                -> [rule |-> "content", name |-> "", wc |-> <<"", "">>, inner |-> <<>>,
                    text |-> Texts[pos]]
          [] kind \in {"if", "unless", "elsif"}
                -> TagPair("standard_tag", kind, wc, <<condition>>)
          [] kind = "else" -> TagPair("standard_tag", kind, wc, <<>>)
          [] kind = "for"
                -> TagPair("standard_tag", kind, wc, <<identifier, QueryPair(<<105, 116, 101, 109, 115>>)>>)
          [] kind \in {"case", "when"}
                -> TagPair("standard_tag", kind, wc, <<QueryPair(<<96 + pos>>)>>)
          [] kind = "capture" -> TagPair("standard_tag", kind, wc, <<identifier>>)
          [] kind \in DOMAIN EndNames -> TagPair("end_tag", EndNames[kind], wc, <<>>)
          [] kind = "mytag" -> TagPair("common_tag", kind, wc, <<>>)

EOI == [rule |-> "EOI", name |-> "", wc |-> <<"", "">>, inner |-> <<>>, text |-> ""]

\* The pairs of the template whose markup is, in order, of the given
\* kinds, the k-th tag with the condition conditions[k]
Pairs(kinds, conditions) ==
    [k \in 1..Len(kinds) |-> MarkupPair(kinds[k], k, conditions[k])] \o <<EOI>>

\* The sequences of at most n kinds of markup out of `family`; text up to
\* the next tag is one content pair, so no two texts in a row
Shapes(family, n) ==
    { ks \in UNION { [1..m -> family] : m \in 0..n } :
        \A k \in 1..(Len(ks) - 1) : ks[k] # "text" \/ ks[k + 1] # "text" }

\* Templates of one family of tags each, the k-th condition the query of
\* the k-th name
TagStreams ==
    LET Families ==
            { {"text", "if", "elsif", "else", "endif"},
              {"text", "unless", "elsif", "else", "endunless"},
              {"text", "for", "else", "endfor", "endif"},
              {"text", "case", "when", "else", "endcase"},
              {"text", "capture", "endcapture", "if", "endif"},
              {"text", "mytag", "if", "endif"} }
    IN  { Pairs(kinds, [k \in 1..Len(kinds) |-> BooleanPair(<<<<QueryPair(<<96 + k>>)>>>>)]) :
            kinds \in UNION { Shapes(family, MaxLen) : family \in Families } }

FiltersPair(rule, names) ==
    [rule |-> rule, text |-> "",
     inner |-> [k \in 1..Len(names) |->
                   [rule |-> "filter", text |-> names[k],
                    inner |-> <<[rule |-> "identifier", text |-> names[k],
                                 inner |-> <<>>]>>]]]

\* `if c`, then nothing or `else d` or `else d | f3`, then nothing or
\* `|| f4` or `|| f4 | f5`
InlineConditionPairs ==
    { [rule |-> "inline_condition", text |-> "",
       inner |-> <<BooleanPair(<<<<QueryPair(<<99>>)>>>>)>> \o alt \o tail] :
        alt \in { <<>>,
                  <<[rule |-> "alternative", text |-> "",
                     inner |-> <<QueryPair(<<100>>)>>]>>,
                  <<[rule |-> "alternative", text |-> "",
                     inner |-> <<QueryPair(<<100>>), FiltersPair("filters", <<"f3">>)>>]>> },
        tail \in { <<>>,
                   <<FiltersPair("tail_filters", <<"f4">>)>>,
                   <<FiltersPair("tail_filters", <<"f4", "f5">>)>> } }

\* `{{ a }}`, `{{ a | f1 }}`, `{{ a | f1 | f2 }}`, each alone or followed by
\* an inline condition
OutputStreams ==
    { <<TagPair("output_statement", "", <<"", "">>,
                <<[rule |-> "filtered_expression", text |-> "",
                   inner |-> <<QueryPair(<<97>>), FiltersPair("filters", fs)>> \o c]>>),
        EOI>> :
        fs \in { <<>>, <<"f1">>, <<"f1", "f2">> },
        c \in { <<>> } \cup { <<ic>> : ic \in InlineConditionPairs } }

\* The conditions of the if and unless tags of RoundStreams: `a`, `true`,
\* `'a'`, `not a`, `a and b`, `a or b`, `a and b or c`, `not (a or b)`,
\* `a == b`, `a < 'a'`, `a in b`, `a not contains 'a'`
RoundConditions ==
    LET a == QueryPair(<<97>>)
        b == QueryPair(<<98>>)
        c == QueryPair(<<99>>)
        str == [rule |-> "single_quoted", text |-> <<97>>, inner |-> <<>>]
        binary(rule, left, op, right) ==
            [rule |-> rule, text |-> "",
             inner |-> <<left, [rule |-> "operator", text |-> op, inner |-> <<>>], right>>]
    IN  { BooleanPair(ands) :
            ands \in { <<<<a>>>>,
                       <<<<[rule |-> "true_literal", text |-> "", inner |-> <<>>]>>>>,
                       <<<<str>>>>,
                       <<<<[rule |-> "logical_not", text |-> "", inner |-> <<a>>]>>>>,
                       <<<<a, b>>>>,
                       <<<<a>>, <<b>>>>,
                       <<<<a, b>>, <<c>>>>,
                       <<<<[rule |-> "logical_not", text |-> "",
                            inner |-> <<[rule |-> "grouped_expr", text |-> "",
                                         inner |-> BooleanPair(<<<<a>>, <<b>>>>).inner]>>]>>>>,
                       <<<<binary("compare_expr", a, "==", b)>>>>,
                       <<<<binary("compare_expr", a, "<", str)>>>>,
                       <<<<binary("membership_expr", a, "in", b)>>>>,
                       <<<<binary("membership_expr", a, "not contains", str)>>>> } }

\* `{{ a }}`, `{{ a | f1 }}`, `{{ a | f1: b }}`, `{{ a | f1: k:b, 'a' | f2 }}`
\* and `{{ 'a' | f1: k:null }}`, with and without whitespace control
RoundOutputs ==
    LET a == QueryPair(<<97>>)
        b == QueryPair(<<98>>)
        str == [rule |-> "single_quoted", text |-> <<97>>, inner |-> <<>>]
        id(name) == [rule |-> "identifier", text |-> name, inner |-> <<>>]
        positional(v) == [rule |-> "positional_argument", text |-> "", inner |-> <<v>>]
        keyword(k, v) == [rule |-> "keyword_argument", text |-> "", inner |-> <<id(k), v>>]
        filter(name, args) ==
            [rule |-> "filter", text |-> name,
             inner |-> IF args = <<>> THEN <<id(name)>>
                       ELSE <<id(name), [rule |-> "common_arguments", text |-> "",
                                         inner |-> args]>>]
    IN  { <<TagPair("output_statement", "", wc,
                    <<[rule |-> "filtered_expression", text |-> "",
                       inner |-> <<e[1], [rule |-> "filters", text |-> "",
                                          inner |-> e[2]]>>]>>),
            EOI>> :
            wc \in { <<"", "">>, <<"-", "+">> },
            e \in { <<a, <<>>>>,
                    <<a, <<filter("f1", <<>>)>>>>,
                    <<a, <<filter("f1", <<positional(b)>>)>>>>,
                    <<a, <<filter("f1", <<keyword("k", b), positional(str)>>),
                           filter("f2", <<>>)>>>>,
                    <<str, <<filter("f1", <<keyword("k", [rule |-> "null", text |-> "",
                                                          inner |-> <<>>])>>)>>>> } }

\* The templates of the round trip: an if or unless block with one of the
\* conditions, plain, empty, after a text, with an else branch or with an
\* elsif branch, and the output statements
RoundStreams ==
    { Pairs(kinds, [k \in 1..Len(kinds) |->
                       IF k <= 2 THEN condition
                       ELSE BooleanPair(<<<<QueryPair(<<96 + k>>)>>>>)]) :
        condition \in RoundConditions,
        kinds \in UNION { { <<tag[1], "text", tag[2]>>,
                            <<tag[1], tag[2]>>,
                            <<"text", tag[1], tag[2]>>,
                            <<tag[1], "text", "else", "text", tag[2]>>,
                            <<tag[1], "text", "elsif", "text", tag[2]>> } :
                          tag \in { <<"if", "endif">>, <<"unless", "endunless">> } } }
    \cup RoundOutputs

---------------------------------------------------------------------------
(* The canonical printer (ast.rs, query.rs).  A printed string is the      *)
(* sequence of its tokens, the blanks between tokens left out.  A token is *)
(* [kind, text]: of kind "sym" (punctuation), "wc" (a whitespace control   *)
(* marker), "word" (a keyword or an identifier), "quoted" (a single-quoted *)
(* string, `text` the code points between the quotes) or "content" (the    *)
(* text between two pieces of markup).                                     *)

Tok(kind, text) == [kind |-> kind, text |-> text]

\* Vec<String>::join(sep)
RECURSIVE join(_, _)
join(strings, sep) ==
    IF strings = <<>> THEN <<>>
    ELSE IF Len(strings) = 1 THEN strings[1]
    ELSE strings[1] \o sep \o join(Tail(strings), sep)

Display_Whitespace(ws) ==
    CASE ws = "Plus" -> <<Tok("wc", "+")>>
      [] ws = "Minus" -> <<Tok("wc", "-")>>
      [] ws = "Smart" -> <<Tok("wc", "~")>>
      [] ws = "Default" -> <<>>

RECURSIVE Display_Segment(_)
RECURSIVE Display_Selector(_)
RECURSIVE Display_FilterExpression(_)

\* i64::to_string: the token of a decimal integer [neg, mag]
Display_i64(i) ==
    Tok("int", (IF i.neg THEN <<45>> ELSE <<>>)
               \o (IF i.mag = <<>> THEN <<48>> ELSE [k \in 1..Len(i.mag) |-> 48 + i.mag[k]]))

\* Display for LogicalOperator and ComparisonOperator (query.rs)
Display_FilterOperator(operator) ==
    CASE operator = "And" -> "&&" [] operator = "Or" -> "||"
      [] operator = "Eq" -> "==" [] operator = "Ne" -> "!=" [] operator = "Ge" -> ">="
      [] operator = "Gt" -> ">" [] operator = "Le" -> "<=" [] operator = "Lt" -> "<"

\* Display for FilterExpression, without the arms for strings and numbers
Display_FilterExpression(e) ==
    CASE e.type = "True_" -> <<Tok("word", "true")>>
      [] e.type = "False_" -> <<Tok("word", "false")>>
      [] e.type = "Null" -> <<Tok("word", "null")>>
      [] e.type = "Not" -> <<Tok("sym", "!")>> \o Display_FilterExpression(e.expression)
      [] e.type = "Logical"
            -> <<Tok("sym", "(")>> \o Display_FilterExpression(e.left)
               \o <<Tok("sym", Display_FilterOperator(e.operator))>>
               \o Display_FilterExpression(e.right) \o <<Tok("sym", ")")>>
      [] e.type = "Comparison"
            -> Display_FilterExpression(e.left)
               \o <<Tok("sym", Display_FilterOperator(e.operator))>>
               \o Display_FilterExpression(e.right)
      [] e.type \in {"RelativeQuery", "RootQuery"}
            -> <<Tok("sym", IF e.type = "RootQuery" THEN "$" ELSE "@")>>
               \o join([k \in 1..Len(e.query.segments) |->
                           Display_Segment(e.query.segments[k])], <<>>)
      [] e.type = "Function"
            -> <<Tok("word", e.name), Tok("sym", "(")>>
               \o join([k \in 1..Len(e.args) |-> Display_FilterExpression(e.args[k])],
                       <<Tok("sym", ",")>>)
               \o <<Tok("sym", ")")>>

\* The Option<i64> of a slice: its digits, or `absent`
Display_SliceBound(bound, absent) ==
    IF bound = <<>> THEN absent ELSE <<Display_i64(bound[1])>>

\* Display for Selector
Display_Selector(selector) ==
    CASE selector.type = "Name" -> <<Tok("quoted", selector.name)>>
      [] selector.type = "Index" -> <<Display_i64(selector.index)>>
      [] selector.type = "Slice"
            -> Display_SliceBound(selector.bounds["start"], <<>>) \o <<Tok("sym", ":")>>
               \o Display_SliceBound(selector.bounds["stop"], <<>>) \o <<Tok("sym", ":")>>
               \o Display_SliceBound(selector.bounds["step"], <<Tok("int", <<49>>)>>)
      [] selector.type = "Wild" -> <<Tok("sym", "*")>>
      [] selector.type = "Filter"
            -> <<Tok("sym", "?")>> \o Display_FilterExpression(selector.expression)
      [] selector.type = "SingularQuery"
            -> <<Tok("sym", "$")>>
               \o join([k \in 1..Len(selector.query.segments) |->
                           Display_Segment(selector.query.segments[k])], <<>>)

Display_Segment(segment) ==
    CASE segment.type = "Child"
            -> <<Tok("sym", "[")>>
               \o join([k \in 1..Len(segment.selectors) |->
                           Display_Selector(segment.selectors[k])], <<Tok("sym", ",")>>)
               \o <<Tok("sym", "]")>>
      [] segment.type = "Recursive"
            -> <<Tok("sym", ".."), Tok("sym", "[")>>
               \o join([k \in 1..Len(segment.selectors) |->
                           Display_Selector(segment.selectors[k])], <<Tok("sym", ",")>>)
               \o <<Tok("sym", "]")>>
      [] segment.type = "Eoi" -> <<>>

Display_Query(path) ==
    <<Tok("sym", "$")>>
    \o join([k \in 1..Len(path.segments) |-> Display_Segment(path.segments[k])], <<>>)

\* Primitive: the arms for the literals true, false and null, for strings
\* and for queries
Display_Primitive(primitive) ==
    CASE primitive.type = "TrueLiteral" -> <<Tok("word", "true")>>
      [] primitive.type = "FalseLiteral" -> <<Tok("word", "false")>>
      [] primitive.type = "NullLiteral" -> <<Tok("word", "null")>>
      [] primitive.type = "StringLiteral" -> <<Tok("quoted", primitive.value)>>
      [] primitive.type = "Query" -> Display_Query(primitive.path)

\* BooleanOperator, CompareOperator and MembershipOperator
Display_Operator(operator) ==
    CASE operator = "And" -> <<Tok("word", "and")>>
      [] operator = "Or" -> <<Tok("word", "or")>>
      [] operator = "Eq" -> <<Tok("sym", "==")>>
      [] operator = "Ne" -> <<Tok("sym", "!=")>>
      [] operator = "Ge" -> <<Tok("sym", ">=")>>
      [] operator = "Gt" -> <<Tok("sym", ">")>>
      [] operator = "Le" -> <<Tok("sym", "<=")>>
      [] operator = "Lt" -> <<Tok("sym", "<")>>
      [] operator = "In" -> <<Tok("word", "in")>>
      [] operator = "NotIn" -> <<Tok("word", "not"), Tok("word", "in")>>
      [] operator = "Contains" -> <<Tok("word", "contains")>>
      [] operator = "NotContains" -> <<Tok("word", "not"), Tok("word", "contains")>>

RECURSIVE Display_BooleanExpression(_)
Display_BooleanExpression(expression) ==
    CASE expression.type = "Primitive" -> Display_Primitive(expression.expr)
      [] expression.type = "LogicalNot"
            -> <<Tok("word", "not"), Tok("sym", "(")>>
               \o Display_BooleanExpression(expression.expr)
               \o <<Tok("sym", ")")>>
      [] expression.type = "Logical"
            -> Display_BooleanExpression(expression.left)
               \o Display_Operator(expression.operator) \o <<Tok("sym", ",")>>
               \o Display_BooleanExpression(expression.right)
      [] expression.type \in {"Comparison", "Membership"}
            -> Display_Primitive(expression.left)
               \o Display_Operator(expression.operator) \o <<Tok("sym", ",")>>
               \o Display_Primitive(expression.right)

Display_CommonArgument(argument) ==
    CASE argument.value # <<>> /\ argument.name # <<>>
            -> <<Tok("word", argument.name[1]), Tok("sym", ":")>>
               \o Display_Primitive(argument.value[1])
      [] argument.value # <<>> /\ argument.name = <<>>
            -> Display_Primitive(argument.value[1])
      [] argument.value = <<>> /\ argument.name # <<>>
            -> <<Tok("word", argument.name[1])>>
      [] OTHER -> <<>>

Display_Filter(filter) ==
    IF filter.args # <<>>
    THEN <<Tok("word", filter.name), Tok("sym", ":")>>
         \o join([k \in 1..Len(filter.args[1]) |->
                     Display_CommonArgument(filter.args[1][k])], <<Tok("sym", ",")>>)
    ELSE <<Tok("word", filter.name)>>

\* `filters.iter().map(|f| f.to_string()).collect::<Vec<String>>().join(" | ")`
\* after the text `before`
Display_Filters(before, filters) ==
    <<Tok("sym", before)>>
    \o join([k \in 1..Len(filters) |-> Display_Filter(filters[k])], <<Tok("sym", "|")>>)

Display_InlineCondition(condition) ==
    <<Tok("word", "if")>>
    \o Display_BooleanExpression(condition.expr)
    \o (IF condition.alternative # <<>>
        THEN <<Tok("word", "else")>> \o Display_Primitive(condition.alternative[1])
        ELSE <<>>)
    \o (IF condition.alternative_filters # <<>>
           /\ Len(condition.alternative_filters[1]) > 0
        THEN Display_Filters("|", condition.alternative_filters[1])
        ELSE <<>>)
    \o (IF condition.tail_filters # <<>>
        THEN Display_Filters("||", condition.tail_filters[1])
        ELSE <<>>)

Display_FilteredExpression(expression) ==
    Display_Primitive(expression.left)
    \o (IF expression.filters # <<>> /\ Len(expression.filters[1]) > 0
        THEN Display_Filters("|", expression.filters[1])
        ELSE <<>>)
    \o (IF expression.condition # <<>>
        THEN Display_InlineCondition(expression.condition[1])
        ELSE <<>>)

RECURSIVE display_block(_)
RECURSIVE Display_Node(_)

\* `{%<wc.left> <words> <wc.right>%}<block>`
Display_Tag(wc, words, block) ==
    <<Tok("sym", "{%")>> \o Display_Whitespace(wc.left) \o words
    \o Display_Whitespace(wc.right) \o <<Tok("sym", "%}")>> \o display_block(block)

Display_ElseTag(tag) ==
    Display_Tag(tag.whitespace_control, <<Tok("word", "else")>>, tag.block)

Display_ElsifTag(tag) ==
    Display_Tag(tag.whitespace_control,
                <<Tok("word", "elsif")>> \o Display_BooleanExpression(tag.condition),
                tag.block)

\* Node: the arms for Content, Output, IfTag and UnlessTag
Display_Node(node) ==
    CASE node.type = "Content" -> <<Tok("content", node.text)>>
      [] node.type = "Output"
            -> <<Tok("sym", "{{")>> \o Display_Whitespace(node.whitespace_control.left)
               \o Display_FilteredExpression(node.expression)
               \o Display_Whitespace(node.whitespace_control.right) \o <<Tok("sym", "}}")>>
      [] node.type \in {"IfTag", "UnlessTag"}
            -> Display_Tag(node.whitespace_control[1],
                           <<Tok("word", IF node.type = "IfTag" THEN "if" ELSE "unless")>>
                           \o Display_BooleanExpression(node.condition),
                           node.block)
               \o join([k \in 1..Len(node.alternatives) |->
                           Display_ElsifTag(node.alternatives[k])], <<>>)
               \o join([k \in 1..Len(node.default) |-> Display_ElseTag(node.default[k])],
                       <<>>)
               \o Display_Tag(node.whitespace_control[2],
                              <<Tok("word", IF node.type = "IfTag" THEN "endif" ELSE "unless")>>,
                              <<>>)

display_block(block) ==
    join([k \in 1..Len(block) |-> Display_Node(block[k])], <<>>)

Display_Template(t) == display_block(t.liquid)

---------------------------------------------------------------------------
(* The recognizer, `Liquid::parse(Rule::liquid, template)`, on a printed   *)
(* string: the productions of the grammar that the printed form of an      *)
(* output statement and of an if or unless block is made of.  The grammar  *)
(* file (liquid2.pest) is not part of the sources; the productions are the *)
(* ones the specification names and their pairs the ones parser.rs reads.  *)
(* A production returns the pair and the tokens after it, or NoMatch.      *)

NoMatch == [kind |-> "NoMatch"]

Is(tokens, kind, text) ==
    tokens # <<>> /\ Head(tokens).kind = kind /\ Head(tokens).text = text

Pair(rule, text, inner) == [rule |-> rule, text |-> text, inner |-> inner]

\* selector ("," selector)* "]", a selector a quoted name or `*`
RECURSIVE Rule_bracketed_selection(_, _)
Rule_bracketed_selection(tokens, selectors) ==
    IF tokens = <<>> \/ Tail(tokens) = <<>> THEN NoMatch
    ELSE IF Head(tokens).kind # "quoted" /\ ~Is(tokens, "sym", "*") THEN NoMatch
    ELSE IF Is(Tail(tokens), "sym", ",")
    THEN Rule_bracketed_selection(
             Tail(Tail(tokens)),
             Append(selectors,
                    Pair(IF Head(tokens).kind = "quoted" THEN "single_quoted"
                         ELSE "wildcard_selector", Head(tokens).text, <<>>)))
    ELSE IF Is(Tail(tokens), "sym", "]")
    THEN Ok(Pair("bracketed_selection", "",
                 Append(selectors,
                        Pair(IF Head(tokens).kind = "quoted" THEN "single_quoted"
                             ELSE "wildcard_selector", Head(tokens).text, <<>>))),
            Tail(Tail(tokens)))
    ELSE NoMatch

\* ("[" bracketed_selection | ".." "[" bracketed_selection)*
RECURSIVE Rule_segments(_, _)
Rule_segments(tokens, segments) ==
    IF Is(tokens, "sym", "[") \/ (Is(tokens, "sym", "..") /\ Is(Tail(tokens), "sym", "["))
    THEN Let({ IF selection.kind # "Ok" THEN selection
               ELSE Rule_segments(
                        selection.rest,
                        Append(segments,
                               Pair(IF Is(tokens, "sym", "[") THEN "child_segment"
                                    ELSE "descendant_segment", "", <<selection.value>>))) :
               selection \in {Rule_bracketed_selection(
                                  IF Is(tokens, "sym", "[") THEN Tail(tokens)
                                  ELSE Tail(Tail(tokens)), <<>>)} })
    ELSE Ok(segments, tokens)

\* "$" segments
Rule_query(tokens) ==
    IF Is(tokens, "sym", "$")
    THEN Let({ IF segments.kind # "Ok" THEN segments
               ELSE Ok(Pair("query", "", segments.value), segments.rest) :
               segments \in {Rule_segments(Tail(tokens), <<>>)} })
    ELSE NoMatch

Rule_primitive(tokens) ==
    CASE Is(tokens, "word", "true") -> Ok(Pair("true_literal", "", <<>>), Tail(tokens))
      [] Is(tokens, "word", "false") -> Ok(Pair("false_literal", "", <<>>), Tail(tokens))
      [] Is(tokens, "word", "null") -> Ok(Pair("null", "", <<>>), Tail(tokens))
      [] tokens # <<>> /\ Head(tokens).kind = "quoted"
            -> Ok(Pair("single_quoted", Head(tokens).text, <<>>), Tail(tokens))
      [] OTHER -> Rule_query(tokens)

\* The operator of a comparison or of a membership test at the head of the
\* tokens: the rule of the expression it makes, its text and the tokens
\* after it
Rule_operator(tokens) ==
    CASE tokens # <<>> /\ Head(tokens).kind = "sym"
         /\ Head(tokens).text \in DOMAIN CompareOperators
            -> Ok(Pair("compare_expr", Head(tokens).text, <<>>), Tail(tokens))
      [] Is(tokens, "word", "in") \/ Is(tokens, "word", "contains")
            -> Ok(Pair("membership_expr", Head(tokens).text, <<>>), Tail(tokens))
      [] Is(tokens, "word", "not") /\ Is(Tail(tokens), "word", "in")
            -> Ok(Pair("membership_expr", "not in", <<>>), Tail(Tail(tokens)))
      [] Is(tokens, "word", "not") /\ Is(Tail(tokens), "word", "contains")
            -> Ok(Pair("membership_expr", "not contains", <<>>), Tail(Tail(tokens)))
      [] OTHER -> NoMatch

RECURSIVE Rule_logical_expr(_, _, _)
RECURSIVE Rule_basic_expr(_)

\* "not" basic | "(" logical_or ")" | primitive operator primitive | primitive
Rule_basic_expr(tokens) ==
    CASE Is(tokens, "word", "not")
            -> Let({ IF e.kind # "Ok" THEN e
                     ELSE Ok(Pair("logical_not", "", <<e.value>>), e.rest) :
                     e \in {Rule_basic_expr(Tail(tokens))} })
      [] Is(tokens, "sym", "(")
            -> Let({ IF e.kind # "Ok" THEN e
                     ELSE IF ~Is(e.rest, "sym", ")") THEN NoMatch
                     ELSE Ok(Pair("grouped_expr", "", <<e.value>>), Tail(e.rest)) :
                     e \in {Rule_logical_expr("or", Tail(tokens), <<>>)} })
      [] OTHER
            -> Let({ IF left.kind # "Ok" THEN left ELSE
               Let({ IF operator.kind # "Ok" THEN left ELSE
               Let({ IF right.kind # "Ok" THEN left
                     ELSE Ok(Pair(operator.value.rule, "",
                                  <<left.value,
                                    Pair("operator", operator.value.text, <<>>),
                                    right.value>>),
                             right.rest)
                   : right \in {Rule_primitive(operator.rest)} })
                   : operator \in {Rule_operator(left.rest)} })
                   : left \in {Rule_primitive(tokens)} })

\* logical_or_expr (word "or"): logical_and_expr ("or" logical_and_expr)*,
\* and logical_and_expr (word "and"): basic ("and" basic)*; `operands` are
\* the pairs read so far
Rule_logical_expr(word, tokens, operands) ==
    Let({ IF operand.kind # "Ok" THEN operand ELSE
    Let({ IF more.kind = "Ok" THEN more
          ELSE Ok(Pair(IF word = "or" THEN "logical_or_expr" ELSE "logical_and_expr",
                       "", Append(operands, operand.value)), operand.rest)
        : more \in {IF Is(operand.rest, "word", word)
                    THEN Rule_logical_expr(word, Tail(operand.rest),
                                           Append(operands, operand.value))
                    ELSE NoMatch} })
        : operand \in {IF word = "or" THEN Rule_logical_expr("and", tokens, <<>>)
                       ELSE Rule_basic_expr(tokens)} })

Rule_boolean_expression(tokens) ==
    Let({ IF e.kind # "Ok" THEN e
          ELSE Ok(Pair("boolean_expression", "", <<e.value>>), e.rest) :
          e \in {Rule_logical_expr("or", tokens, <<>>)} })

\* word ":" primitive | primitive
Rule_argument(tokens) ==
    Let({ IF value.kind # "Ok" THEN value
          ELSE IF Len(tokens) >= 2 /\ tokens[1].kind = "word" /\ Is(Tail(tokens), "sym", ":")
          THEN Ok(Pair("keyword_argument", "",
                       <<Pair("identifier", Head(tokens).text, <<>>), value.value>>),
                  value.rest)
          ELSE Ok(Pair("positional_argument", "", <<value.value>>), value.rest) :
          value \in {Rule_primitive(IF /\ Len(tokens) >= 2
                                       /\ tokens[1].kind = "word"
                                       /\ Is(Tail(tokens), "sym", ":")
                                    THEN Tail(Tail(tokens)) ELSE tokens)} })

\* argument ("," argument)*; `arguments` are the pairs read so far
RECURSIVE Rule_common_arguments(_, _)
Rule_common_arguments(tokens, arguments) ==
    Let({ IF argument.kind # "Ok" THEN argument ELSE
    Let({ IF more.kind = "Ok" THEN more
          ELSE Ok(Pair("common_arguments", "", Append(arguments, argument.value)),
                  argument.rest)
        : more \in {IF Is(argument.rest, "sym", ",")
                    THEN Rule_common_arguments(Tail(argument.rest),
                                               Append(arguments, argument.value))
                    ELSE NoMatch} })
        : argument \in {Rule_argument(tokens)} })

\* word (":" common_arguments)?
Rule_filter(tokens) ==
    IF tokens = <<>> \/ Head(tokens).kind # "word" THEN NoMatch
    ELSE Let({ IF arguments.kind # "Ok"
               THEN Ok(Pair("filter", Head(tokens).text,
                            <<Pair("identifier", Head(tokens).text, <<>>)>>),
                       Tail(tokens))
               ELSE Ok(Pair("filter", Head(tokens).text,
                            <<Pair("identifier", Head(tokens).text, <<>>),
                              arguments.value>>),
                       arguments.rest) :
               arguments \in {IF Is(Tail(tokens), "sym", ":")
                              THEN Rule_common_arguments(Tail(Tail(tokens)), <<>>)
                              ELSE NoMatch} })

\* ("|" filter)*; `filters` are the pairs read so far
RECURSIVE Rule_filters(_, _)
Rule_filters(tokens, filters) ==
    IF Is(tokens, "sym", "|")
    THEN Let({ IF filter.kind # "Ok" THEN Ok(Pair("filters", "", filters), tokens)
               ELSE Rule_filters(filter.rest, Append(filters, filter.value)) :
               filter \in {Rule_filter(Tail(tokens))} })
    ELSE Ok(Pair("filters", "", filters), tokens)

\* primitive ("|" filter)*
Rule_filtered_expression(tokens) ==
    Let({ IF left.kind # "Ok" THEN left ELSE
    Let({ Ok(Pair("filtered_expression", "", <<left.value, filters.value>>),
             filters.rest)
        : filters \in {Rule_filters(left.rest, <<>>)} })
        : left \in {Rule_primitive(tokens)} })

\* The marker of whitespace control at the head of the tokens, if any
WcAt(tokens) ==
    IF tokens # <<>> /\ Head(tokens).kind = "wc" THEN Head(tokens).text ELSE ""

SkipWc(tokens) ==
    IF tokens # <<>> /\ Head(tokens).kind = "wc" THEN Tail(tokens) ELSE tokens

\* A tag from its name on, `wl` the marker read before the name: if, unless
\* and elsif with a boolean expression, else, endif and endunless bare; any
\* other name is none of the tags of an if or unless block
Rule_tag(wl, tokens) ==
    IF tokens = <<>> \/ Head(tokens).kind # "word" THEN NoMatch
    ELSE IF Head(tokens).text \notin {"if", "unless", "elsif", "else", "endif", "endunless"}
    THEN NoMatch
    ELSE Let({ IF expression.kind # "Ok" THEN expression
               ELSE IF ~Is(SkipWc(expression.rest), "sym", "%}") THEN NoMatch
               ELSE Ok(TagPair(IF Head(tokens).text \in {"endif", "endunless"}
                               THEN "end_tag" ELSE "standard_tag",
                               CASE Head(tokens).text = "endif" -> "if"
                                 [] Head(tokens).text = "endunless" -> "unless"
                                 [] OTHER -> Head(tokens).text,
                               <<wl, WcAt(expression.rest)>>,
                               expression.value),
                       Tail(SkipWc(expression.rest))) :
               expression \in {IF Head(tokens).text \in {"if", "unless", "elsif"}
                               THEN Let({ IF e.kind # "Ok" THEN e
                                          ELSE Ok(<<e.value>>, e.rest) :
                                          e \in {Rule_boolean_expression(Tail(tokens))} })
                               ELSE Ok(<<>>, Tail(tokens))} })

\* content | "{{" filtered_expression "}}" | "{%" tag "%}"
Rule_markup(tokens) ==
    CASE tokens # <<>> /\ Head(tokens).kind = "content"
            -> Ok([rule |-> "content", name |-> "", wc |-> <<"", "">>, inner |-> <<>>,
                   text |-> Head(tokens).text], Tail(tokens))
      [] Is(tokens, "sym", "{{")
            -> Let({ IF expression.kind # "Ok" THEN expression
                     ELSE IF ~Is(SkipWc(expression.rest), "sym", "}}") THEN NoMatch
                     ELSE Ok(TagPair("output_statement", "",
                                     <<WcAt(Tail(tokens)), WcAt(expression.rest)>>,
                                     <<expression.value>>),
                             Tail(SkipWc(expression.rest))) :
                     expression \in {Rule_filtered_expression(SkipWc(Tail(tokens)))} })
      [] Is(tokens, "sym", "{%") -> Rule_tag(WcAt(Tail(tokens)), SkipWc(Tail(tokens)))
      [] OTHER -> NoMatch

\* liquid: markup* EOI; `pairs` are the pairs read so far
RECURSIVE Rule_liquid(_, _)
Rule_liquid(tokens, pairs) ==
    IF tokens = <<>> THEN [kind |-> "Ok", value |-> Append(pairs, EOI)]
    ELSE Let({ IF markup.kind # "Ok" THEN markup
               ELSE Rule_liquid(markup.rest, Append(pairs, markup.value)) :
               markup \in {Rule_markup(tokens)} })

\* `{{ a }}`
OutputPair ==
    TagPair("output_statement", "", <<"", "">>,
            <<[rule |-> "filtered_expression", text |-> "",
               inner |-> <<QueryPair(<<97>>), FiltersPair("filters", <<>>)>>]>>)

\* Case blocks with an output statement, alone or next to a text, between
\* the case tag and the first when tag, and a case block whose when tag has
\* two arguments: `{% case a %}{{ a }}{% when c %}{% endcase %}`,
\* `{% case a %}t2{{ a }}{% when c %}{% endcase %}`,
\* `{% case a %}{{ a }}t2{% when c %}{% endcase %}`,
\* `{% case a %}{% when b, c %}t3{% else %}{% endcase %}`
CaseStreams ==
    { <<MarkupPair("case", 1, <<>>)>> \o prefix
        \o <<MarkupPair("when", 3, <<>>), MarkupPair("endcase", 4, <<>>), EOI>> :
        prefix \in { <<OutputPair>>,
                     <<MarkupPair("text", 2, <<>>), OutputPair>>,
                     <<OutputPair, MarkupPair("text", 2, <<>>)>> } }
    \cup { <<MarkupPair("case", 1, <<>>),
             TagPair("standard_tag", "when", <<"", "">>, <<QueryPair(<<98>>), QueryPair(<<99>>)>>),
             MarkupPair("text", 3, <<>>),
             MarkupPair("else", 4, <<>>),
             MarkupPair("endcase", 5, <<>>), EOI>> }

\* `name: value` with a value, the symbol `name` without
ArgumentPair(name, value) ==
    IF value = <<>>
    THEN [rule |-> "positional_argument", text |-> "",
          inner |-> <<[rule |-> "identifier", text |-> name, inner |-> <<>>]>>]
    ELSE [rule |-> "keyword_argument", text |-> "",
          inner |-> <<[rule |-> "identifier", text |-> name, inner |-> <<>>], value[1]>>]

\* `limit: b`, `offset: true`, `reversed`, and the arguments a for tag does
\* not take: `foo: c`, `foo`, `reversed: c`
ForArguments ==
    { ArgumentPair("limit", <<QueryPair(<<98>>)>>),
      ArgumentPair("offset", <<[rule |-> "true_literal", text |-> "", inner |-> <<>>]>>),
      ArgumentPair("reversed", <<>>),
      ArgumentPair("foo", <<QueryPair(<<99>>)>>),
      ArgumentPair("foo", <<>>),
      ArgumentPair("reversed", <<QueryPair(<<99>>)>>) }

MaxArguments == 3

\* `{% for a in items args %}t2{% endfor %}` with at most MaxArguments
\* different arguments in every order
ForStreamsOf(arguments) ==
    { <<TagPair("standard_tag", "for", <<"", "">>,
                <<[rule |-> "identifier", text |-> "a", inner |-> <<>>],
                  QueryPair(<<105, 116, 101, 109, 115>>)>>
                \o (IF args = <<>> THEN <<>>
                    ELSE <<[rule |-> "for_tag_arguments", text |-> "", inner |-> args]>>)),
        MarkupPair("text", 2, <<>>), MarkupPair("endfor", 3, <<>>), EOI>> :
        args \in { a \in UNION { [1..n -> arguments] : n \in 0..MaxArguments } :
                     \A j, k \in 1..Len(a) : j # k => a[j] # a[k] } }

ForStreams == ForStreamsOf(ForArguments)

\* The arguments of a for tag with `limit` and `offset` as bare symbols too
BareForArguments ==
    ForArguments \cup {ArgumentPair("limit", <<>>), ArgumentPair("offset", <<>>)}

\* The with and for clauses of an include tag: `with b`, `with b as p`,
\* `for b`, `for true as p`, and none
IncludeClauses ==
    { <<>> }
    \cup { <<[rule |-> rule, text |-> "", inner |-> <<variable>> \o alias]>> :
             rule \in {"include_with", "include_for"},
             variable \in {QueryPair(<<98>>),
                           [rule |-> "true_literal", text |-> "", inner |-> <<>>]},
             alias \in {<<>>, <<[rule |-> "identifier", text |-> "p", inner |-> <<>>]>>} }

\* The common arguments of an include tag: none, `c`, `k: c, 'a'`
IncludeArguments ==
    { <<>> }
    \cup { <<[rule |-> "common_arguments", text |-> "", inner |-> args]>> :
             args \in { <<[rule |-> "positional_argument", text |-> "",
                           inner |-> <<QueryPair(<<99>>)>>]>>,
                        <<ArgumentPair("k", <<QueryPair(<<99>>)>>),
                          [rule |-> "positional_argument", text |-> "",
                           inner |-> <<[rule |-> "single_quoted", text |-> <<97>>,
                                        inner |-> <<>>]>>]>> } }

\* `{% include 'a' clause args %}` and `{% render 'a' clause args %}`; a
\* tag without clause and arguments with and without the pair of the
\* arguments
IncludeStreams ==
    { <<TagPair("standard_tag", name, <<"", "">>,
                <<[rule |-> "single_quoted", text |-> <<97>>, inner |-> <<>>]>> \o arguments),
        EOI>> :
        name \in {"include", "render"},
        arguments \in { <<>> }
                      \cup { <<[rule |-> "include_tag_arguments", text |-> "",
                                inner |-> clause \o args]>> :
                               clause \in IncludeClauses, args \in IncludeArguments } }

\* The pair of the pos-th line statement of a liquid tag: a line tag, a
\* line end tag or a `#` comment; a line statement carries no whitespace
\* control
LinePair(kind, pos) ==
    CASE kind = "comment"
            -> [rule |-> "line_comment", name |-> "", wc |-> <<"", "">>, inner |-> <<>>,
                text |-> "c"]
      [] kind = "break" -> TagPair("line_standard_tag_expr", "break", <<"", "">>, <<>>)
      [] OTHER
            -> [MarkupPair(kind, pos, BooleanPair(<<<<QueryPair(<<96 + pos>>)>>>>))
                  EXCEPT !.rule = IF @ = "end_tag" THEN "line_end_tag"
                                  ELSE "line_standard_tag_expr",
                         !.wc = <<"", "">>]

MaxLines == 4

\* `{%- liquid statements ~%}` with at most MaxLines line statements of one
\* family each
LiquidStreams ==
    LET Families ==
            { {"if", "elsif", "else", "endif", "break"},
              {"for", "if", "endif", "endfor", "comment"},
              {"case", "when", "else", "endcase", "comment"} }
    IN  { <<TagPair("standard_tag", "liquid", <<"-", "~">>,
                    [k \in 1..Len(kinds) |-> LinePair(kinds[k], k)]),
            EOI>> :
            kinds \in UNION { [1..n -> family] : family \in Families, n \in 0..MaxLines } }

---------------------------------------------------------------------------
(* The specifications of the template parser.                              *)

ParseInit ==
    /\ src_pairs \in TagStreams \cup OutputStreams
    /\ template = [kind |-> "None"]
    /\ printed = [kind |-> "None"]
    /\ printed_pairs = [kind |-> "None"]
    /\ reparsed = [kind |-> "None"]
    /\ UnescapeIdle
    /\ LexerIdle
    /\ NumberIdle
    /\ StringIdle
    /\ QueryIdle

Parse ==
    /\ template.kind = "None"
    /\ template' = parse(src_pairs)
    /\ UNCHANGED <<src_pairs, printed, printed_pairs, reparsed>>

ParseNext == Parse /\ UNCHANGED <<uvars, svars, qvars, lvars, nvars>>

SpecParse == ParseInit /\ [][ParseNext]_vars

\* parse on the templates that start with a case tag, the for tags and the
\* include and render tags
TagsInit ==
    /\ src_pairs \in { s \in TagStreams : s[1].name = "case" }
                      \cup CaseStreams \cup ForStreams \cup IncludeStreams
    /\ template = [kind |-> "None"]
    /\ printed = [kind |-> "None"]
    /\ printed_pairs = [kind |-> "None"]
    /\ reparsed = [kind |-> "None"]
    /\ UnescapeIdle
    /\ LexerIdle
    /\ NumberIdle
    /\ StringIdle
    /\ QueryIdle

SpecTags == TagsInit /\ [][ParseNext]_vars

\* parse on the for tags with every argument the grammar takes
ForInit ==
    /\ src_pairs \in ForStreamsOf(BareForArguments)
    /\ template = [kind |-> "None"]
    /\ printed = [kind |-> "None"]
    /\ printed_pairs = [kind |-> "None"]
    /\ reparsed = [kind |-> "None"]
    /\ UnescapeIdle
    /\ LexerIdle
    /\ NumberIdle
    /\ StringIdle
    /\ QueryIdle

SpecFor == ForInit /\ [][ParseNext]_vars

\* parse on the liquid tags
LiquidInit ==
    /\ src_pairs \in LiquidStreams
    /\ template = [kind |-> "None"]
    /\ printed = [kind |-> "None"]
    /\ printed_pairs = [kind |-> "None"]
    /\ reparsed = [kind |-> "None"]
    /\ UnescapeIdle
    /\ LexerIdle
    /\ NumberIdle
    /\ StringIdle
    /\ QueryIdle

SpecLiquid == LiquidInit /\ [][ParseNext]_vars

\* Template::to_string() of the tree of a successful parse
PrintTemplate ==
    /\ template.kind = "Ok"
    /\ printed.kind = "None"
    /\ printed' = [kind |-> "Ok", value |-> Display_Template(template.value)]
    /\ UNCHANGED <<src_pairs, template, printed_pairs, reparsed>>

\* LiquidParser::parse of the printed string, its first statement: the
\* grammar reads the string, and a string it rejects is a syntax error
Recognize ==
    /\ printed.kind = "Ok"
    /\ printed_pairs.kind = "None"
    /\ \E read \in {Rule_liquid(printed.value, <<>>)} :
          /\ printed_pairs' = read
          /\ reparsed' = IF read.kind # "Ok" THEN SyntaxError ELSE reparsed
    /\ UNCHANGED <<src_pairs, template, printed>>

\* LiquidParser::parse, its second statement: parse_block on the pairs of the
\* source (first) or on the pairs of the printed string
RoundParse ==
    \E first \in BOOLEAN :
        /\ IF first THEN template.kind = "None"
                    ELSE printed_pairs.kind = "Ok" /\ reparsed.kind = "None"
        /\ \E result \in {parse(IF first THEN src_pairs ELSE printed_pairs.value)} :
              IF first THEN template' = result /\ UNCHANGED reparsed
                       ELSE reparsed' = result /\ UNCHANGED template
        /\ UNCHANGED <<src_pairs, printed, printed_pairs>>

RoundInit ==
    /\ src_pairs \in RoundStreams
    /\ template = [kind |-> "None"]
    /\ printed = [kind |-> "None"]
    /\ printed_pairs = [kind |-> "None"]
    /\ reparsed = [kind |-> "None"]
    /\ UnescapeIdle
    /\ LexerIdle
    /\ NumberIdle
    /\ StringIdle
    /\ QueryIdle

RoundNext ==
    (RoundParse \/ PrintTemplate \/ Recognize) /\ UNCHANGED <<uvars, svars, qvars, lvars, nvars>>

SpecRound == RoundInit /\ [][RoundNext]_vars

---------------------------------------------------------------------------
(* Properties of the template parser.                                      *)

BlockTags == { name \in DOMAIN standard_tags : standard_tags[name].block }

RECURSIVE Nesting(_, _)

\* The block structure of a template, read off its pairs with a stack
\* `open` of the blocks not yet closed (innermost first), each with the
\* branch it is in: "closed" when every block is closed by its own end tag
\* and every branch tag stands where its block allows it; otherwise the
\* first thing wrong.
Nesting(pairs, open) ==
    LET p == Head(pairs)
        top == Head(open)
        case_head == open # <<>> /\ top.name = "case" /\ top.branch = "body"
        branch(b) == Nesting(Tail(pairs), <<[top EXCEPT !.branch = b]>> \o Tail(open))
    IN  CASE p.rule = "EOI" -> IF open = <<>> THEN "closed" ELSE "unclosed"
          [] p.rule = "end_tag"
                -> IF open # <<>> /\ top.name = p.name
                   THEN Nesting(Tail(pairs), Tail(open))
                   ELSE "mismatched"
          [] p.rule = "standard_tag" /\ p.name \in BlockTags
                -> IF case_head THEN "misplaced"
                   ELSE Nesting(Tail(pairs),
                                <<[name |-> p.name, branch |-> "body"]>> \o open)
          [] p.rule = "standard_tag" /\ p.name = "elsif"
                -> IF open # <<>> /\ top.name \in {"if", "unless"} /\ top.branch # "else"
                   THEN branch("elsif") ELSE "misplaced"
          [] p.rule = "standard_tag" /\ p.name = "when"
                -> IF open # <<>> /\ top.name = "case" /\ top.branch # "else"
                   THEN branch("when") ELSE "misplaced"
          [] p.rule = "standard_tag" /\ p.name = "else"
                -> IF open # <<>> /\ top.name \in {"if", "unless", "for", "case"}
                      /\ top.branch # "else"
                   THEN branch("else") ELSE "misplaced"
          [] OTHER -> IF case_head /\ p.rule # "content" THEN "misplaced"
                      ELSE Nesting(Tail(pairs), open)

RECURSIVE SameNameNested(_, _)

\* In a template whose Nesting is "closed": some if, unless, for or case tag
\* stands in a block of the same name with no other block in between, as in
\* {% if a %}{% if b %}x{% endif %}{% endif %}.  `open` holds the names of
\* the blocks not yet closed, innermost first.
SameNameNested(pairs, open) ==
    LET p == Head(pairs)
    IN  CASE p.rule = "EOI" -> FALSE
          [] p.rule = "end_tag" -> SameNameNested(Tail(pairs), Tail(open))
          [] p.rule = "standard_tag" /\ p.name \in BlockTags
                -> \/ /\ open # <<>>
                      /\ Head(open) = p.name
                      /\ p.name \in {"if", "unless", "for", "case"}
                   \/ SameNameNested(Tail(pairs), <<p.name>> \o open)
          [] OTHER -> SameNameNested(Tail(pairs), open)

\* The nodes directly inside a block node, over all of its branches
Children(node) ==
    LET branches(tags) == [k \in 1..Len(tags) |-> tags[k].block]
    IN  CASE node.type \in {"IfTag", "UnlessTag"}
                -> Flatten(<<node.block>> \o branches(node.alternatives)
                           \o branches(node.default))
          [] node.type = "ForTag" -> Flatten(<<node.block>> \o branches(node.default))
          [] node.type = "CaseTag"
                -> Flatten(branches(node.whens) \o branches(node.default))
          [] node.type = "CaptureTag" -> node.block
          [] OTHER -> <<>>

RECURSIVE AllNodes(_)

\* The nodes of the trees `nodes`, at every depth
AllNodes(nodes) ==
    IF nodes = <<>> THEN <<>>
    ELSE nodes \o AllNodes(Flatten([k \in 1..Len(nodes) |-> Children(nodes[k])]))

SomeNode(nodes, P(_)) == \E k \in 1..Len(AllNodes(nodes)) : P(AllNodes(nodes)[k])

HasSameTypeChild(node) ==
    \E k \in 1..Len(Children(node)) : Children(node)[k].type = node.type

IsExtension(node) == node.type = "TagExtension" /\ node.name = "mytag"

Done == template.kind # "None"

\* C1: a template with properly closed blocks in which an if, unless, for
\* or case tag stands inside a block of the same name parses to a Template,
\* and the inner tag is a node inside the outer block's node.
C1_SameNameNesting ==
    (Done /\ Nesting(src_pairs, <<>>) = "closed" /\ SameNameNested(src_pairs, <<>>))
        => /\ template.kind = "Ok"
           /\ SomeNode(template.value.liquid, HasSameTypeChild)

\* C2: a template in which the end of input comes while a block is still
\* open makes parse return Err(SyntaxError): no abort, no Template.
C2_UnclosedBlock ==
    (Done /\ Nesting(src_pairs, <<>>) = "unclosed")
        => template.kind = "SyntaxError"

\* C3: a template with an end tag that does not close the innermost open
\* block (another name, or no block open) makes parse return
\* Err(SyntaxError): no abort, no Template.
C3_MismatchedEndTag ==
    (Done /\ Nesting(src_pairs, <<>>) = "mismatched")
        => template.kind = "SyntaxError"

\* C4: a template with a tag whose name is not in the registry, and nothing
\* left open, parses to a Template that holds a TagExtension node with the
\* tag's name.
C4_TagExtension ==
    (Done /\ Nesting(src_pairs, <<>>) = "closed"
          /\ \E k \in 1..Len(src_pairs) : src_pairs[k].rule = "common_tag")
        => /\ template.kind = "Ok"
           /\ SomeNode(template.value.liquid, IsExtension)

\* The inline condition pair of the template `{{ <filtered expression> }}`,
\* as a sequence of length 0 or 1
\* C5: the template round trip.  When parse succeeds on a source with the
\* tree t, parse of t.to_string() succeeds too and its tree equals t; so
\* for trees with unless blocks, with and, or and not, with comparisons,
\* with membership tests and with keyword arguments.
C5_RoundTrip ==
    (template.kind = "Ok" /\ reparsed.kind # "None")
        => (reparsed.kind = "Ok" /\ reparsed.value = template.value)

ConditionPair ==
    IF src_pairs # <<>> /\ src_pairs[1].rule = "output_statement"
       /\ Len(src_pairs[1].inner[1].inner) = 3
    THEN <<src_pairs[1].inner[1].inner[3]>>
    ELSE <<>>

\* The pairs of the given rule directly inside the pair
PartsOf(pair, rule) == SelectSeq(pair.inner, LAMBDA q : q.rule = rule)

\* C6: in `{{ a if c ... }}` the else part and the || part are each
\* optional.  With neither, the InlineCondition has alternative,
\* alternative_filters and tail_filters all None; with only else,
\* tail_filters is None; with only ||, alternative is None and tail_filters
\* holds the filters in source order.
C6_InlineConditionParts ==
    (Done /\ ConditionPair # <<>>)
        => /\ template.kind = "Ok"
           /\ LET alt == PartsOf(ConditionPair[1], "alternative")
                  tail == PartsOf(ConditionPair[1], "tail_filters")
                  c == template.value.liquid[1].expression.condition[1]
              IN  /\ (alt = <<>> /\ tail = <<>>)
                        => /\ c.alternative = <<>>
                           /\ c.alternative_filters = <<>>
                           /\ c.tail_filters = <<>>
                  /\ (alt # <<>> /\ tail = <<>>)
                        => c.alternative # <<>> /\ c.tail_filters = <<>>
                  /\ (alt = <<>> /\ tail # <<>>)
                        => /\ c.alternative = <<>>
                           /\ Len(c.tail_filters) = 1
                           /\ [k \in 1..Len(c.tail_filters[1]) |-> c.tail_filters[1][k].name]
                                = [k \in 1..Len(tail[1].inner) |-> tail[1].inner[k].text]

---------------------------------------------------------------------------
(* The JSONPath query parser and its type checker (QueryParser of          *)
(* src/src/lexer.rs, with the predicates of src/src/query.rs).  A pair is  *)
(* [rule, text, inner]; the text of an integer is a sequence of chars.  An *)
(* i64 is held as [neg, mag]: its sign and the decimal digits of its       *)
(* magnitude without leading zeros (<<>> for 0), since its values exceed   *)
(* the integers of the checker.  A function that returns Result<T, _>      *)
(* returns [kind, value] here.                                             *)

TypeError == [kind |-> "TypeError"]

NameError == [kind |-> "NameError"]

\* a <= b for magnitudes
MagLe(a, b) ==
    \/ Len(a) < Len(b)
    \/ /\ Len(a) = Len(b)
       /\ \/ a = b
          \/ \E k \in 1..Len(a) : a[k] < b[k] /\ \A j \in 1..(k - 1) : a[j] = b[j]

\* x <= y for i64
IntLe(x, y) ==
    IF x.neg THEN (~y.neg \/ MagLe(y.mag, x.mag)) ELSE (~y.neg /\ MagLe(x.mag, y.mag))

\* i64::MAX = 2^63 - 1, and 2^53 - 1
I64MaxMag == <<9, 2, 2, 3, 3, 7, 2, 0, 3, 6, 8, 5, 4, 7, 7, 5, 8, 0, 7>>
I64MinMag == <<9, 2, 2, 3, 3, 7, 2, 0, 3, 6, 8, 5, 4, 7, 7, 5, 8, 0, 8>>
IJsonMag == <<9, 0, 0, 7, 1, 9, 9, 2, 5, 4, 7, 4, 0, 9, 9, 1>>

\* str::parse::<i64>(): an optional sign, then one or more decimal digits,
\* of a value that an i64 holds; z is the number of leading zeros.
str_parse_i64(value) ==
    Let({ IF digits = <<>> \/ \E k \in 1..Len(digits) : digits[k] \notin 48..57
          THEN [kind |-> "Err"]
          ELSE Let({ IF ~MagLe(mag, IF value[1] = 45 THEN I64MinMag ELSE I64MaxMag)
                     THEN [kind |-> "Err"]
                     ELSE [kind |-> "Ok",
                           value |-> [neg |-> value[1] = 45 /\ mag # <<>>, mag |-> mag]] :
                     mag \in {Let({ [k \in 1..(Len(digits) - z) |-> digits[z + k] - 48] :
                                    z \in {Cardinality({ k \in 1..Len(digits) :
                                              \A j \in 1..k : digits[j] = 48 })} })} }) :
          digits \in {IF value # <<>> /\ value[1] \in {43, 45} THEN Tail(value) ELSE value} })

\* The mutant of index_range that ends at 2^53.
index_range_wide ==
    [start |-> [neg |-> TRUE, mag |-> IJsonMag],
     end |-> [neg |-> FALSE, mag |-> <<9, 0, 0, 7, 1, 9, 9, 2, 5, 4, 7, 4, 0, 9, 9, 2>>]]

\* QueryParser::new: index_range
index_range ==
    [start |-> [neg |-> TRUE, mag |-> IJsonMag], end |-> [neg |-> FALSE, mag |-> IJsonMag]]

\* QueryParser::parse_i_json_int
parse_i_json_int(value) ==
    Let({ IF i.kind # "Ok" THEN SyntaxError
          ELSE IF ~(IntLe(index_range.start, i.value) /\ IntLe(i.value, index_range.end))
               THEN SyntaxError
          ELSE i :
          i \in {str_parse_i64(value)} })

\* standard_functions(): name -> FunctionSignature
standard_functions ==
    "count" :> [param_types |-> <<"Nodes">>, return_type |-> "Value"]
    @@ "length" :> [param_types |-> <<"Value">>, return_type |-> "Value"]
    @@ "match" :> [param_types |-> <<"Value", "Value">>, return_type |-> "Logical"]
    @@ "search" :> [param_types |-> <<"Value", "Value">>, return_type |-> "Logical"]
    @@ "value" :> [param_types |-> <<"Nodes">>, return_type |-> "Value"]

\* `self.functions.get(name)` is Some of a signature with this return type
Returns(name, type) ==
    name \in DOMAIN standard_functions /\ standard_functions[name].return_type = type

\* The mutant of is_singular that takes any single selector for singular.
is_singular_any(q) ==
    \A k \in 1..Len(q.segments) :
        /\ q.segments[k].type = "Child"
        /\ Len(q.segments[k].selectors) = 1

\* Query::is_singular
is_singular(q) ==
    \A k \in 1..Len(q.segments) :
        /\ q.segments[k].type = "Child"
        /\ Len(q.segments[k].selectors) = 1
        /\ q.segments[k].selectors[1].type \in {"Name", "Index"}

\* FilterExpression::is_literal
is_literal(expr) ==
    expr.type \in {"True_", "False_", "Null", "StringLiteral", "Int", "Float"}

IsQuery(expr) == expr.type \in {"RelativeQuery", "RootQuery"}

\* The mutant of assert_comparable that takes the result of any registered
\* function for comparable.
assert_comparable_any(expr) ==
    CASE IsQuery(expr)
            -> IF ~is_singular(expr.query) THEN TypeError ELSE [kind |-> "Ok"]
      [] expr.type = "Function"
            -> IF expr.name \in DOMAIN standard_functions THEN [kind |-> "Ok"] ELSE TypeError
      [] OTHER -> [kind |-> "Ok"]

\* QueryParser::assert_comparable
assert_comparable(expr) ==
    CASE IsQuery(expr)
            -> IF ~is_singular(expr.query) THEN TypeError ELSE [kind |-> "Ok"]
      [] expr.type = "Function"
            -> IF Returns(expr.name, "Value") THEN [kind |-> "Ok"] ELSE TypeError
      [] OTHER -> [kind |-> "Ok"]

\* QueryParser::assert_compared
assert_compared(expr) ==
    IF expr.type = "Function" /\ Returns(expr.name, "Value")
    THEN TypeError ELSE [kind |-> "Ok"]

\* QueryParser::is_value_type
is_value_type(expr) ==
    \/ is_literal(expr)
    \/ IsQuery(expr) /\ is_singular(expr.query)
    \/ expr.type = "Function" /\ Returns(expr.name, "Value")

\* The mutant of is_nodes_type that also takes a literal for nodes.
is_nodes_type_literal(expr) ==
    \/ IsQuery(expr)
    \/ is_literal(expr)
    \/ expr.type = "Function" /\ Returns(expr.name, "Nodes")

\* QueryParser::is_nodes_type
is_nodes_type(expr) ==
    IsQuery(expr) \/ (expr.type = "Function" /\ Returns(expr.name, "Nodes"))

\* The `match typ` of assert_well_typed: the argument is of the declared type
IsOfType(arg, typ) ==
    CASE typ = "Value" -> is_value_type(arg)
      [] typ = "Logical" -> IsQuery(arg) \/ arg.type \in {"Logical", "Comparison"}
      [] typ = "Nodes" -> is_nodes_type(arg)

\* The three errors of assert_well_typed, each with what its message is
\* formatted from: "unknown function `{}`", "{}() takes {} argument{} but {}
\* were given" and "argument {} of {}() must be of a '{}' type".
UnknownFunction(func_name) ==
    [kind |-> "NameError", message |-> [unknown |-> func_name]]

ArgumentCount(func_name, takes, given) ==
    [kind |-> "TypeError",
     message |-> [function |-> func_name, takes |-> takes, given |-> given]]

ArgumentType(func_name, argument, typ) ==
    [kind |-> "TypeError",
     message |-> [function |-> func_name, argument |-> argument, type |-> typ]]

\* The arguments that are not of the type declared for them; idx counts
\* from 1 here, as `idx + 1` does in the messages
Mistyped(func_name, args) ==
    { idx \in 1..Len(args) :
        ~IsOfType(args[idx], standard_functions[func_name].param_types[idx]) }

\* The mutant of assert_well_typed that reports the last argument of the
\* wrong type.
assert_well_typed_last(func_name, args) ==
    IF func_name \notin DOMAIN standard_functions THEN UnknownFunction(func_name)
    ELSE IF Len(args) # Len(standard_functions[func_name].param_types)
         THEN ArgumentCount(func_name, Len(standard_functions[func_name].param_types),
                            Len(args))
    ELSE IF Mistyped(func_name, args) # {}
         THEN Let({ ArgumentType(func_name, idx,
                                 standard_functions[func_name].param_types[idx]) :
                    idx \in {CHOOSE i \in Mistyped(func_name, args) :
                                \A j \in Mistyped(func_name, args) : j <= i} })
    ELSE [kind |-> "Ok", value |-> args]

\* QueryParser::assert_well_typed
assert_well_typed(func_name, args) ==
    IF func_name \notin DOMAIN standard_functions THEN UnknownFunction(func_name)
    ELSE IF Len(args) # Len(standard_functions[func_name].param_types)
         THEN ArgumentCount(func_name, Len(standard_functions[func_name].param_types),
                            Len(args))
    ELSE IF Mistyped(func_name, args) # {}
         THEN Let({ ArgumentType(func_name, idx,
                                 standard_functions[func_name].param_types[idx]) :
                    idx \in {CHOOSE i \in Mistyped(func_name, args) :
                                \A j \in Mistyped(func_name, args) : i <= j} })
    ELSE [kind |-> "Ok", value |-> args]

RECURSIVE QueryParser_parse_segment(_)
RECURSIVE QueryParser_parse_logical_or_expression(_, _)
RECURSIVE parse_function_expression(_)

\* QueryParser::parse and the `.map(|segment| self.parse_segment(segment))
\* .collect()` of the query arms: the Query of the segments
QueryParser_parse(segments) ==
    Let({ IF parsed.kind # "Ok" THEN parsed
          ELSE [kind |-> "Ok", value |-> [segments |-> parsed.value]] :
          parsed \in {collect([k \in 1..Len(segments) |->
                                  QueryParser_parse_segment(segments[k])])} })

\* The arms for literals and queries that parse_comparable,
\* parse_test_expression_inner and parse_function_argument have in common
\* (those for true, false, null and the four query rules).
literal_or_query(expr) ==
    CASE expr.rule = "true_literal" -> [kind |-> "Ok", value |-> [type |-> "True_"]]
      [] expr.rule = "false_literal" -> [kind |-> "Ok", value |-> [type |-> "False_"]]
      [] expr.rule = "null" -> [kind |-> "Ok", value |-> [type |-> "Null"]]
      [] expr.rule \in {"rel_singular_query", "rel_query", "abs_singular_query", "root_query"}
            -> Let({ IF q.kind # "Ok" THEN q
                     ELSE [kind |-> "Ok",
                           value |-> [type |-> IF expr.rule \in {"rel_singular_query", "rel_query"}
                                               THEN "RelativeQuery" ELSE "RootQuery",
                                      query |-> q.value]] :
                     q \in {QueryParser_parse(expr.inner)} })

\* QueryParser::parse_function_argument
parse_function_argument(expr) ==
    CASE expr.rule \in {"true_literal", "false_literal", "null", "rel_query", "root_query"}
            -> literal_or_query(expr)
      [] expr.rule = "logical_or_expr" -> QueryParser_parse_logical_or_expression(expr, FALSE)
      [] expr.rule = "function_expr" -> parse_function_expression(expr)
      [] OTHER -> Aborted                              \* unreachable!()

\* QueryParser::parse_function_expression
parse_function_expression(expr) ==
    IF expr.inner = <<>> THEN Aborted
    ELSE
    Let({ IF args.kind # "Ok" THEN args ELSE
    Let({ IF typed.kind # "Ok" THEN typed
          ELSE [kind |-> "Ok",
                value |-> [type |-> "Function", name |-> expr.inner[1].text,
                           args |-> typed.value]]
        : typed \in {assert_well_typed(expr.inner[1].text, args.value)} })
        : args \in {collect([k \in 1..(Len(expr.inner) - 1) |->
                               parse_function_argument(expr.inner[k + 1])])} })

\* QueryParser::parse_test_expression_inner
parse_test_expression_inner(expr) ==
    CASE expr.rule \in {"rel_query", "root_query"} -> literal_or_query(expr)
      [] expr.rule = "function_expr" -> parse_function_expression(expr)
      [] OTHER -> Aborted                              \* unreachable!()

\* expression, or Not{expression} when negated
Negated(negated, expression) ==
    IF negated /\ expression.kind = "Ok"
    THEN [kind |-> "Ok", value |-> [type |-> "Not", expression |-> expression.value]]
    ELSE expression

\* QueryParser::parse_test_expression
parse_test_expression(expr) ==
    IF Len(expr.inner) < (IF expr.inner # <<>> /\ expr.inner[1].rule = "logical_not_op"
                          THEN 2 ELSE 1)
    THEN Aborted
    ELSE Negated(expr.inner[1].rule = "logical_not_op",
                 parse_test_expression_inner(
                    expr.inner[IF expr.inner[1].rule = "logical_not_op" THEN 2 ELSE 1]))

\* QueryParser::parse_comparable
parse_comparable(expr) ==
    CASE expr.rule \in {"true_literal", "false_literal", "null",
                        "rel_singular_query", "abs_singular_query"}
            -> literal_or_query(expr)
      [] expr.rule = "function_expr" -> parse_function_expression(expr)
      [] OTHER -> Aborted                              \* unreachable!()

ComparisonOperators ==
    "==" :> "Eq" @@ "!=" :> "Ne" @@ "<=" :> "Le" @@ ">=" :> "Ge" @@ "<" :> "Lt" @@ ">" :> "Gt"

\* QueryParser::parse_comparison_expression
parse_comparison_expression(expr) ==
    IF Len(expr.inner) < 3 THEN Aborted
    ELSE
    Let({ IF read.kind # "Ok" THEN read
          ELSE IF assert_comparable(read.value[1]).kind # "Ok" THEN TypeError
          ELSE IF assert_comparable(read.value[3]).kind # "Ok" THEN TypeError
          ELSE [kind |-> "Ok",
                value |-> [type |-> "Comparison", left |-> read.value[1],
                           operator |-> read.value[2], right |-> read.value[3]]]
        : read \in {collect([k \in 1..3 |->
                      IF k # 2 THEN parse_comparable(expr.inner[k])
                      ELSE IF expr.inner[2].text \in DOMAIN ComparisonOperators
                           THEN [kind |-> "Ok", value |-> ComparisonOperators[expr.inner[2].text]]
                      ELSE Aborted])} })

\* QueryParser::parse_paren_expression
parse_paren_expression(expr) ==
    IF expr.inner = <<>> \/ expr.inner[1].rule \notin {"logical_not_op", "logical_or_expr"}
       \/ (expr.inner[1].rule = "logical_not_op" /\ Len(expr.inner) < 2)
    THEN Aborted
    ELSE Negated(expr.inner[1].rule = "logical_not_op",
                 QueryParser_parse_logical_or_expression(
                    expr.inner[IF expr.inner[1].rule = "logical_not_op" THEN 2 ELSE 1], TRUE))

\* QueryParser::parse_basic_expression
QueryParser_parse_basic_expression(expr) ==
    CASE expr.rule = "paren_expr" -> parse_paren_expression(expr)
      [] expr.rule = "comparison_expr" -> parse_comparison_expression(expr)
      [] expr.rule = "test_expr" -> parse_test_expression(expr)
      [] OTHER -> Aborted                              \* unreachable!()

\* `let x = <parse>?; if assert_compared { self.assert_compared(&x)?; }`
compared(x, assert_compared_on) ==
    IF x.kind = "Ok" /\ assert_compared_on /\ assert_compared(x.value).kind # "Ok"
    THEN TypeError ELSE x

\* The first operand and the `for` loop of parse_logical_or_expression
\* (operator "Or", operands parsed by parse_logical_and_expression) and of
\* parse_logical_and_expression (operator "And", operands parsed by
\* parse_basic_expression); acc is Nothing before the first operand.
RECURSIVE logical_operands(_, _, _, _)
logical_operands(operator, it, acc, assert_compared_on) ==
    IF it = <<>> \/ acc.kind \notin {"Nothing", "Ok"} THEN acc
    ELSE logical_operands(operator, Tail(it),
            Let({ IF right.kind # "Ok" \/ acc.kind = "Nothing" THEN right
                  ELSE [kind |-> "Ok",
                        value |-> [type |-> "Logical", left |-> acc.value,
                                   operator |-> operator, right |-> right.value]] :
                  right \in {compared(
                      IF operator = "Or"
                      THEN IF Head(it).inner = <<>> THEN Aborted
                           ELSE logical_operands("And", Head(it).inner,
                                                 [kind |-> "Nothing"], assert_compared_on)
                      ELSE QueryParser_parse_basic_expression(Head(it)),
                      assert_compared_on)} }),
            assert_compared_on)

\* QueryParser::parse_logical_and_expression is
\* logical_operands("And", expr.inner, Nothing, assert_compared)

\* QueryParser::parse_logical_or_expression
QueryParser_parse_logical_or_expression(expr, assert_compared_on) ==
    IF expr.inner = <<>> THEN Aborted
    ELSE logical_operands("Or", expr.inner, [kind |-> "Nothing"], assert_compared_on)

\* QueryParser::parse_slice_selector: start, stop and step are Options, each
\* the value of the last inner pair of its rule
parse_slice_selector(selector) ==
    IF \E k \in 1..Len(selector.inner) : selector.inner[k].rule \notin {"start", "stop", "step"}
    THEN Aborted                                       \* unreachable!()
    ELSE
    Let({ IF read.kind # "Ok" THEN read
          ELSE [kind |-> "Ok",
                value |-> [type |-> "Slice",
                           bounds |-> [f \in {"start", "stop", "step"} |->
                              IF \E k \in 1..Len(selector.inner) : selector.inner[k].rule = f
                              THEN <<read.value[CHOOSE k \in 1..Len(selector.inner) :
                                        /\ selector.inner[k].rule = f
                                        /\ \A j \in (k + 1)..Len(selector.inner) :
                                              selector.inner[j].rule # f]>>
                              ELSE <<>>]]]
        : read \in {collect([k \in 1..Len(selector.inner) |->
                               parse_i_json_int(selector.inner[k].text)])} })

\* QueryParser::parse_selector, with parse_filter_selector and
\* parse_singular_query_selector
QueryParser_parse_selector(selector) ==
    CASE selector.rule \in {"double_quoted", "single_quoted"}
            -> Let({ IF name.kind # "Ok" THEN [kind |-> name.kind]
                     ELSE [kind |-> "Ok", value |-> [type |-> "Name", name |-> name.value]] :
                     name \in {unescape(IF selector.rule = "single_quoted"
                                        THEN replace_escaped_quote(selector.text)
                                        ELSE selector.text)} })
      [] selector.rule = "wildcard_selector" -> [kind |-> "Ok", value |-> [type |-> "Wild"]]
      [] selector.rule = "slice_selector" -> parse_slice_selector(selector)
      [] selector.rule = "index_selector"
            -> Let({ IF i.kind # "Ok" THEN i
                     ELSE [kind |-> "Ok", value |-> [type |-> "Index", index |-> i.value]] :
                     i \in {parse_i_json_int(selector.text)} })
      [] selector.rule = "filter_selector"
            -> IF selector.inner = <<>> THEN Aborted
               ELSE Let({ IF e.kind # "Ok" THEN e
                          ELSE [kind |-> "Ok",
                                value |-> [type |-> "Filter", expression |-> e.value]] :
                          e \in {QueryParser_parse_logical_or_expression(selector.inner[1], TRUE)} })
      [] selector.rule = "member_name_shorthand"
            -> [kind |-> "Ok", value |-> [type |-> "Name", name |-> selector.text]]
      [] selector.rule = "singular_query_selector"
            -> Let({ IF q.kind # "Ok" THEN q
                     ELSE [kind |-> "Ok",
                           value |-> [type |-> "SingularQuery", query |-> q.value]] :
                     q \in {QueryParser_parse(selector.inner)} })
      [] OTHER -> Aborted                              \* unreachable!()

\* QueryParser::parse_segment, with parse_segment_inner
QueryParser_parse_segment(segment) ==
    CASE segment.rule \in {"child_segment", "implicit_root_segment", "descendant_segment",
                           "name_segment", "implicit_root_name_segment", "index_segment"}
            -> IF segment.inner = <<>> THEN Aborted
               ELSE
               Let({ IF selectors.kind # "Ok" THEN selectors
                     ELSE [kind |-> "Ok",
                           value |-> [type |-> IF segment.rule = "descendant_segment"
                                               THEN "Recursive" ELSE "Child",
                                      selectors |-> selectors.value]] :
                     selectors \in
                       {IF segment.inner[1].rule \notin {"bracketed_selection", "wildcard_selector", "member_name_shorthand"}
                           /\ segment.rule \in {"child_segment", "implicit_root_segment", "descendant_segment"}
                        THEN Aborted                   \* parse_segment_inner: unreachable!()
                        ELSE collect([k \in 1..(IF segment.inner[1].rule = "bracketed_selection"
                                                THEN Len(segment.inner[1].inner) ELSE 1) |->
                                 QueryParser_parse_selector(
                                    IF segment.inner[1].rule = "bracketed_selection"
                                    THEN segment.inner[1].inner[k] ELSE segment.inner[1])])} })
      [] segment.rule = "EOI" -> [kind |-> "Ok", value |-> [type |-> "Eoi"]]
      [] OTHER -> Aborted                              \* unreachable!()

---------------------------------------------------------------------------
(* The pairs of JSONPath queries: what the grammar hands QueryParser::parse *)
(* for the queries of the checks.  Names are sequences of code points,      *)
(* the texts of integers sequences of chars.                                *)

NameA == <<97>>
NameB == <<98>>

\* the text of a decimal integer: its sign and its digits
IntText(neg, digits) ==
    (IF neg THEN <<45>> ELSE <<>>) \o [k \in 1..Len(digits) |-> 48 + digits[k]]

NameSegment(name) ==
    Pair("name_segment", <<>>, <<Pair("member_name_shorthand", name, <<>>)>>)

IndexSegment(text) ==
    Pair("index_segment", <<>>, <<Pair("index_selector", text, <<>>)>>)

\* `[selectors]`, `[*]`-less: the bracketed selection of a child segment, or
\* of a descendant segment
Bracketed(rule, selectors) ==
    Pair(rule, <<>>, <<Pair("bracketed_selection", <<>>, selectors)>>)

Wildcard(rule) == Pair(rule, <<>>, <<Pair("wildcard_selector", <<>>, <<>>)>>)

FunctionExpr(name, args) ==
    Pair("function_expr", <<>>, <<Pair("function_name", name, <<>>)>> \o args)

TestExpr(negated, expr) ==
    Pair("test_expr", <<>>,
         (IF negated THEN <<Pair("logical_not_op", <<>>, <<>>)>> ELSE <<>>) \o <<expr>>)

ComparisonExpr(left, op, right) ==
    Pair("comparison_expr", <<>>, <<left, Pair("comparison_op", op, <<>>), right>>)

\* a logical_or_expr of logical_and_exprs, given as a sequence of sequences
\* of basic expressions
LogicalOrExpr(ands) ==
    Pair("logical_or_expr", <<>>,
         [k \in 1..Len(ands) |-> Pair("logical_and_expr", <<>>, ands[k])])

ParenExpr(negated, ands) ==
    Pair("paren_expr", <<>>,
         (IF negated THEN <<Pair("logical_not_op", <<>>, <<>>)>> ELSE <<>>)
         \o <<LogicalOrExpr(ands)>>)

\* `$[?expr]`: the segments of a query with one filter selector
FilterQuery(ands) ==
    <<Bracketed("child_segment", <<Pair("filter_selector", <<>>, <<LogicalOrExpr(ands)>>)>>)>>

RelA == Pair("rel_query", <<>>, <<NameSegment(NameA)>>)
RelB == Pair("rel_query", <<>>, <<NameSegment(NameB)>>)
RelWild == Pair("rel_query", <<>>, <<Wildcard("child_segment")>>)
CountA == FunctionExpr("count", <<RelA>>)
MatchAB == FunctionExpr("match", <<RelA, RelB>>)
TrueLiteral == Pair("true_literal", <<>>, <<>>)

\* Basic expressions of a filter: tests of a query, of Value-returning and of
\* Logical-returning calls, bare and negated; a comparison; parenthesised
\* expressions, bare and negated.
BasicExprs ==
    { TestExpr(n, e) : n \in BOOLEAN,
                       e \in {RelA, CountA, FunctionExpr("length", <<RelA>>), MatchAB} }
    \cup { ComparisonExpr(CountA, "==", TrueLiteral) }
    \cup { ParenExpr(n, <<<<b>>>>) :
             n \in BOOLEAN,
             b \in {TestExpr(FALSE, CountA), TestExpr(FALSE, MatchAB),
                    ComparisonExpr(CountA, "<", TrueLiteral)} }

\* `$[?b]`, `$[?b && c]`, `$[?b || c]`
FilterInputs ==
    { FilterQuery(<<<<b>>>>) : b \in BasicExprs }
    \cup { FilterQuery(<<<<b, c>>>>) : b \in BasicExprs, c \in BasicExprs }
    \cup { FilterQuery(<<<<b>>, <<c>>>>) : b \in BasicExprs, c \in BasicExprs }

\* Operands of a comparison: literals, singular queries, calls of
\* Value-returning and Logical-returning functions, of an unknown function,
\* and a call with an argument of the wrong type.
Comparables ==
    { TrueLiteral, Pair("null", <<>>, <<>>),
      Pair("rel_singular_query", <<>>, <<NameSegment(NameA)>>),
      Pair("abs_singular_query", <<>>, <<NameSegment(NameA), IndexSegment(IntText(FALSE, <<1>>))>>),
      CountA, FunctionExpr("length", <<TrueLiteral>>), FunctionExpr("value", <<RelWild>>),
      MatchAB, FunctionExpr("search", <<RelA, TrueLiteral>>),
      FunctionExpr("foo", <<>>), FunctionExpr("count", <<TrueLiteral>>) }

ComparisonInputs ==
    { FilterQuery(<<<<ComparisonExpr(l, op, r)>>>>) :
        l \in Comparables, op \in {"==", "<"}, r \in Comparables }

\* Arguments of a function call: a literal, a singular and a non-singular
\* query, calls that return Value and Logical, and logical expressions.
FunctionArguments ==
    { TrueLiteral, RelA, RelWild, CountA, MatchAB,
      LogicalOrExpr(<<<<ComparisonExpr(TrueLiteral, "==", TrueLiteral)>>>>),
      LogicalOrExpr(<<<<TestExpr(FALSE, RelA)>>>>) }

FunctionNames == {"count", "length", "match", "search", "value", "foo"}

\* `$[?f(args) == true]` for the functions that do not return Logical,
\* `$[?f(args)]` for those that do
CallQuery(name, args) ==
    FilterQuery(<<<<IF name \in {"match", "search"}
                   THEN TestExpr(FALSE, FunctionExpr(name, args))
                   ELSE ComparisonExpr(FunctionExpr(name, args), "==", TrueLiteral)>>>>)

FunctionInputs ==
    { CallQuery(name, args) :
        name \in FunctionNames,
        args \in UNION { [1..n -> FunctionArguments] : n \in 0..2 } }

\* Arguments that break a rule themselves or in the call they are given to:
\* a literal, a non-singular query, a call of an unknown function, a call
\* with an argument of the wrong type, a call with too few arguments, and
\* calls that hold a failing call (`count(foo())`, `foo(count(true))`,
\* `match(length(), foo())`)
FailingArguments ==
    { TrueLiteral, RelWild,
      FunctionExpr("foo", <<>>),
      FunctionExpr("count", <<TrueLiteral>>),
      FunctionExpr("length", <<>>),
      FunctionExpr("count", <<FunctionExpr("foo", <<>>)>>),
      FunctionExpr("foo", <<FunctionExpr("count", <<TrueLiteral>>)>>),
      FunctionExpr("match", <<FunctionExpr("length", <<>>), FunctionExpr("foo", <<>>)>>) }

\* Calls that break several rules at once: `f(a)` and `f(a, b)`
NestedCallInputs ==
    { CallQuery(name, args) :
        name \in {"count", "match", "foo"},
        args \in UNION { [1..n -> FailingArguments] : n \in 1..2 } }

\* Decimal integers around the bounds of the I-JSON range and of i64, each
\* with its sign, its digits and whether it lies in
\* [-(2^53 - 1), 2^53 - 1].
IntTable ==
    { [neg |-> FALSE, digits |-> <<0>>, in_range |-> TRUE],
      [neg |-> FALSE, digits |-> <<1>>, in_range |-> TRUE],
      [neg |-> TRUE, digits |-> <<1>>, in_range |-> TRUE],
      [neg |-> FALSE, digits |-> <<9, 9, 9, 9, 9, 9, 9, 9, 9, 9, 9, 9, 9, 9, 9>>,
       in_range |-> TRUE],
      [neg |-> FALSE, digits |-> <<9, 0, 0, 7, 1, 9, 9, 2, 5, 4, 7, 4, 0, 9, 9, 0>>,
       in_range |-> TRUE],
      [neg |-> FALSE, digits |-> <<9, 0, 0, 7, 1, 9, 9, 2, 5, 4, 7, 4, 0, 9, 9, 1>>,
       in_range |-> TRUE],
      [neg |-> TRUE, digits |-> <<9, 0, 0, 7, 1, 9, 9, 2, 5, 4, 7, 4, 0, 9, 9, 1>>,
       in_range |-> TRUE],
      [neg |-> FALSE, digits |-> <<9, 0, 0, 7, 1, 9, 9, 2, 5, 4, 7, 4, 0, 9, 9, 2>>,
       in_range |-> FALSE],
      [neg |-> TRUE, digits |-> <<9, 0, 0, 7, 1, 9, 9, 2, 5, 4, 7, 4, 0, 9, 9, 2>>,
       in_range |-> FALSE],
      [neg |-> FALSE, digits |-> <<1, 0, 0, 0, 0, 0, 0, 0, 0, 0, 0, 0, 0, 0, 0, 0, 0>>,
       in_range |-> FALSE],
      [neg |-> FALSE, digits |-> I64MaxMag, in_range |-> FALSE],
      [neg |-> FALSE, digits |-> I64MinMag, in_range |-> FALSE],
      [neg |-> TRUE, digits |-> I64MinMag, in_range |-> FALSE],
      [neg |-> TRUE,
       digits |-> <<9, 2, 2, 3, 3, 7, 2, 0, 3, 6, 8, 5, 4, 7, 7, 5, 8, 0, 9>>,
       in_range |-> FALSE],
      [neg |-> FALSE,
       digits |-> <<9, 9, 9, 9, 9, 9, 9, 9, 9, 9, 9, 9, 9, 9, 9, 9, 9, 9, 9, 9>>,
       in_range |-> FALSE] }

\* `$[i]` and the index segment of i
IndexInputs ==
    { <<Bracketed("child_segment",
                  <<Pair("index_selector", IntText(i.neg, i.digits), <<>>)>>)>> :
        i \in IntTable }
    \cup { <<IndexSegment(IntText(i.neg, i.digits))>> : i \in IntTable }

\* The integers of the slices: 1, the two bounds, and the two integers next
\* to them outside the range; no digits stand for a part that is absent
SliceTable ==
    { i \in IntTable : i.digits = <<1>> \/ (Len(i.digits) = 16 /\ i.digits[16] \in {1, 2}) }
    \cup { [neg |-> FALSE, digits |-> <<>>, in_range |-> TRUE] }

\* `$[start:stop:step]` with each part present or absent
SliceInputs ==
    { <<Bracketed("child_segment",
          <<Pair("slice_selector", <<>>,
                 [k \in 1..Len(parts) |->
                    Pair(parts[k][1], IntText(parts[k][2].neg, parts[k][2].digits), <<>>)])>>)>> :
        parts \in { SelectSeq(<<p, q, r>>, LAMBDA x : x[2].digits # <<>>) :
                      p \in {"start"} \X SliceTable,
                      q \in {"stop"} \X SliceTable,
                      r \in {"step"} \X SliceTable } }

\* Segments of every kind: `.a`, `[1]`, `[1, 2]`, `[1:]`, `[*]`, `[?@.a]`,
\* `[$.a]`, `..[1]`, `..[*]`, `.a` as a bracketed name
SegmentKinds ==
    { NameSegment(NameA),
      IndexSegment(IntText(FALSE, <<1>>)),
      Bracketed("child_segment", <<Pair("index_selector", IntText(FALSE, <<1>>), <<>>)>>),
      Bracketed("child_segment", <<Pair("index_selector", IntText(FALSE, <<1>>), <<>>),
                                   Pair("index_selector", IntText(FALSE, <<2>>), <<>>)>>),
      Bracketed("child_segment",
                <<Pair("slice_selector", <<>>,
                       <<Pair("start", IntText(FALSE, <<1>>), <<>>)>>)>>),
      Wildcard("child_segment"),
      Head(FilterQuery(<<<<TestExpr(FALSE, RelA)>>>>)),
      Bracketed("child_segment",
                <<Pair("singular_query_selector", <<>>, <<NameSegment(NameA)>>)>>),
      Bracketed("descendant_segment",
                <<Pair("index_selector", IntText(FALSE, <<1>>), <<>>)>>),
      Wildcard("descendant_segment") }

\* Queries of at most MaxSegments segments, with and without the EOI pair
\* at the end
MaxSegments == 2

SegmentInputs ==
    { segments \o tail :
        segments \in UNION { [1..n -> SegmentKinds] : n \in 0..MaxSegments },
        tail \in {<<>>, <<Pair("EOI", <<>>, <<>>)>>} }

QueryInputs ==
    FilterInputs \cup ComparisonInputs \cup FunctionInputs \cup NestedCallInputs
    \cup IndexInputs \cup SliceInputs \cup SegmentInputs

---------------------------------------------------------------------------
(* parse_query / parse_jsonpath_query on the pairs of a query, and          *)
(* is_singular on the Query returned.                                       *)

QueryInit ==
    /\ jp_pairs \in QueryInputs
    /\ jp_query = [kind |-> "None"]
    /\ jp_singular = [kind |-> "None"]
    /\ jp_printed = [kind |-> "None"]
    /\ jp_again = [kind |-> "None"]
    /\ UnescapeIdle
    /\ LexerIdle
    /\ NumberIdle
    /\ StringIdle
    /\ ParseIdle

\* Lexer::parse_jsonpath_query: self.query_parser.parse(..)
ParseQuery ==
    /\ jp_query.kind = "None"
    /\ jp_query' = QueryParser_parse(jp_pairs)
    /\ UNCHANGED <<jp_pairs, jp_singular, jp_printed, jp_again>>

\* Query::is_singular of the query returned
IsSingular ==
    /\ jp_query.kind = "Ok"
    /\ jp_singular.kind = "None"
    /\ jp_singular' = [kind |-> "Ok", value |-> is_singular(jp_query.value)]
    /\ UNCHANGED <<jp_pairs, jp_query, jp_printed, jp_again>>

QueryNext == (ParseQuery \/ IsSingular) /\ UNCHANGED <<uvars, svars, pvars, lvars, nvars>>

SpecQuery == QueryInit /\ [][QueryNext]_vars

---------------------------------------------------------------------------
(* The recognizer `Liquid::parse(Rule::_jsonpath, path)` on the printed    *)
(* form of a Query: the productions of the JSONPath grammar that           *)
(* Query::to_string() can produce, with the pairs that QueryParser reads.  *)
(* A choice takes its first alternative that matches, as a PEG does.       *)

RECURSIVE Rule_jp_selection(_, _)
RECURSIVE Rule_jp_segments(_, _)
RECURSIVE Rule_jp_logical(_, _, _)
RECURSIVE Rule_jp_basic(_)
RECURSIVE Rule_jp_function(_)
RECURSIVE Rule_jp_arguments(_, _)

\* The text between two single quotes is a string body: a backslash takes
\* the next char with it, and no quote stands unescaped
RECURSIVE QuotedBody(_)
QuotedBody(text) ==
    IF text = <<>> THEN TRUE
    ELSE IF text[1] = SingleQuote THEN FALSE
    ELSE IF text[1] = Backslash
    THEN Len(text) >= 2 /\ QuotedBody(SubSeq(text, 3, Len(text)))
    ELSE QuotedBody(Tail(text))

IsInt(tokens) == tokens # <<>> /\ Head(tokens).kind = "int"

\* int | [int] ":" [int] [":" [int]]
Rule_jp_slice_or_index(tokens) ==
    LET after_start == IF IsInt(tokens) THEN Tail(tokens) ELSE tokens
        from_stop == Tail(after_start)
        after_stop == IF IsInt(from_stop) THEN Tail(from_stop) ELSE from_stop
        from_step == IF Is(after_stop, "sym", ":") THEN Tail(after_stop) ELSE after_stop
        has_step == Is(after_stop, "sym", ":") /\ IsInt(from_step)
    IN  IF ~Is(after_start, "sym", ":")
        THEN IF IsInt(tokens)
             THEN Ok(Pair("index_selector", Head(tokens).text, <<>>), after_start)
             ELSE NoMatch
        ELSE Ok(Pair("slice_selector", <<>>,
                     (IF IsInt(tokens) THEN <<Pair("start", Head(tokens).text, <<>>)>>
                      ELSE <<>>)
                     \o (IF IsInt(from_stop) THEN <<Pair("stop", Head(from_stop).text, <<>>)>>
                         ELSE <<>>)
                     \o (IF has_step THEN <<Pair("step", Head(from_step).text, <<>>)>>
                         ELSE <<>>)),
                IF has_step THEN Tail(from_step) ELSE from_step)

\* quoted name | "*" | "?" logical_or_expr | slice | index
Rule_jp_selector(tokens) ==
    CASE tokens # <<>> /\ Head(tokens).kind = "quoted"
            -> IF QuotedBody(Head(tokens).text)
               THEN Ok(Pair("single_quoted", Head(tokens).text, <<>>), Tail(tokens))
               ELSE NoMatch
      [] Is(tokens, "sym", "*") -> Ok(Pair("wildcard_selector", <<>>, <<>>), Tail(tokens))
      [] Is(tokens, "sym", "?")
            -> Let({ IF e.kind # "Ok" THEN e
                     ELSE Ok(Pair("filter_selector", <<>>, <<e.value>>), e.rest) :
                     e \in {Rule_jp_logical("||", Tail(tokens), <<>>)} })
      [] OTHER -> Rule_jp_slice_or_index(tokens)

\* selector ("," selector)* "]"
Rule_jp_selection(tokens, selectors) ==
    Let({ IF selector.kind # "Ok" THEN selector
          ELSE IF Is(selector.rest, "sym", ",")
          THEN Rule_jp_selection(Tail(selector.rest), Append(selectors, selector.value))
          ELSE IF Is(selector.rest, "sym", "]")
          THEN Ok(Pair("bracketed_selection", <<>>, Append(selectors, selector.value)),
                  Tail(selector.rest))
          ELSE NoMatch :
          selector \in {Rule_jp_selector(tokens)} })

\* ("[" selection | ".." "[" selection)*
Rule_jp_segments(tokens, segments) ==
    IF Is(tokens, "sym", "[") \/ (Is(tokens, "sym", "..") /\ Is(Tail(tokens), "sym", "["))
    THEN Let({ IF selection.kind # "Ok" THEN selection
               ELSE Rule_jp_segments(
                        selection.rest,
                        Append(segments,
                               Pair(IF Is(tokens, "sym", "[") THEN "child_segment"
                                    ELSE "descendant_segment", <<>>, <<selection.value>>))) :
               selection \in {Rule_jp_selection(
                                  IF Is(tokens, "sym", "[") THEN Tail(tokens)
                                  ELSE Tail(Tail(tokens)), <<>>)} })
    ELSE Ok(segments, tokens)

\* A segment of a singular query: one name or one index
SingularShape(segment) ==
    /\ segment.rule = "child_segment"
    /\ Len(segment.inner[1].inner) = 1
    /\ segment.inner[1].inner[1].rule \in {"single_quoted", "index_selector"}

\* ("@" | "$") segments: rel_query or root_query and, where `singular`,
\* rel_singular_query or abs_singular_query
Rule_jp_filter_query(tokens, singular) ==
    IF ~Is(tokens, "sym", "@") /\ ~Is(tokens, "sym", "$") THEN NoMatch
    ELSE Let({ IF segments.kind # "Ok" THEN segments
               ELSE IF singular /\ \E k \in 1..Len(segments.value) :
                                      ~SingularShape(segments.value[k])
               THEN NoMatch
               ELSE Ok(Pair(CASE Is(tokens, "sym", "@") /\ singular -> "rel_singular_query"
                              [] Is(tokens, "sym", "@") -> "rel_query"
                              [] singular -> "abs_singular_query"
                              [] OTHER -> "root_query",
                            <<>>, segments.value),
                       segments.rest) :
               segments \in {Rule_jp_segments(Tail(tokens), <<>>)} })

Rule_jp_literal(tokens) ==
    CASE Is(tokens, "word", "true") -> Ok(Pair("true_literal", <<>>, <<>>), Tail(tokens))
      [] Is(tokens, "word", "false") -> Ok(Pair("false_literal", <<>>, <<>>), Tail(tokens))
      [] Is(tokens, "word", "null") -> Ok(Pair("null", <<>>, <<>>), Tail(tokens))
      [] OTHER -> NoMatch

\* literal | singular query | function_expr
Rule_jp_comparable(tokens) ==
    CASE Rule_jp_literal(tokens).kind = "Ok" -> Rule_jp_literal(tokens)
      [] Is(tokens, "sym", "@") \/ Is(tokens, "sym", "$") -> Rule_jp_filter_query(tokens, TRUE)
      [] OTHER -> Rule_jp_function(tokens)

\* An argument ends before "," or ")"
EndsArgument(r) == r.kind = "Ok" /\ (Is(r.rest, "sym", ",") \/ Is(r.rest, "sym", ")"))

\* literal | filter query | function_expr | logical_or_expr
Rule_jp_argument(tokens) ==
    CASE EndsArgument(Rule_jp_literal(tokens)) -> Rule_jp_literal(tokens)
      [] EndsArgument(Rule_jp_filter_query(tokens, FALSE)) -> Rule_jp_filter_query(tokens, FALSE)
      [] EndsArgument(Rule_jp_function(tokens)) -> Rule_jp_function(tokens)
      [] OTHER -> Rule_jp_logical("||", tokens, <<>>)

\* argument ("," argument)* ")"
Rule_jp_arguments(tokens, args) ==
    Let({ IF arg.kind # "Ok" THEN arg
          ELSE IF Is(arg.rest, "sym", ",")
          THEN Rule_jp_arguments(Tail(arg.rest), Append(args, arg.value))
          ELSE IF Is(arg.rest, "sym", ")") THEN Ok(Append(args, arg.value), Tail(arg.rest))
          ELSE NoMatch :
          arg \in {Rule_jp_argument(tokens)} })

\* name "(" [argument ("," argument)*] ")"
Rule_jp_function(tokens) ==
    IF tokens = <<>> \/ Head(tokens).kind # "word" \/ ~Is(Tail(tokens), "sym", "(")
    THEN NoMatch
    ELSE Let({ IF args.kind # "Ok" THEN args
               ELSE Ok(Pair("function_expr", <<>>,
                            <<Pair("function_name", Head(tokens).text, <<>>)>> \o args.value),
                       args.rest) :
               args \in {IF Is(Tail(Tail(tokens)), "sym", ")")
                         THEN Ok(<<>>, Tail(Tail(Tail(tokens))))
                         ELSE Rule_jp_arguments(Tail(Tail(tokens)), <<>>)} })

Not(negated) == IF negated THEN <<Pair("logical_not_op", <<>>, <<>>)>> ELSE <<>>

\* ["!"] "(" logical_or_expr ")"
Rule_jp_paren(tokens) ==
    Let({ IF ~Is(open, "sym", "(") THEN NoMatch
          ELSE Let({ IF e.kind # "Ok" THEN e
                     ELSE IF ~Is(e.rest, "sym", ")") THEN NoMatch
                     ELSE Ok(Pair("paren_expr", <<>>,
                                  Not(Is(tokens, "sym", "!")) \o <<e.value>>),
                             Tail(e.rest)) :
                     e \in {Rule_jp_logical("||", Tail(open), <<>>)} }) :
          open \in {IF Is(tokens, "sym", "!") THEN Tail(tokens) ELSE tokens} })

\* comparable comparison_op comparable
Rule_jp_comparison(tokens) ==
    Let({ IF left.kind # "Ok" THEN left
          ELSE IF left.rest = <<>> \/ Head(left.rest).kind # "sym"
                  \/ Head(left.rest).text \notin DOMAIN ComparisonOperators
          THEN NoMatch
          ELSE Let({ IF right.kind # "Ok" THEN right
                     ELSE Ok(Pair("comparison_expr", <<>>,
                                  <<left.value,
                                    Pair("comparison_op", Head(left.rest).text, <<>>),
                                    right.value>>),
                             right.rest) :
                     right \in {Rule_jp_comparable(Tail(left.rest))} }) :
          left \in {Rule_jp_comparable(tokens)} })

\* ["!"] (filter query | function_expr)
Rule_jp_test(tokens) ==
    Let({ Let({ IF e.kind # "Ok" THEN e
                ELSE Ok(Pair("test_expr", <<>>, Not(Is(tokens, "sym", "!")) \o <<e.value>>),
                        e.rest) :
                e \in {IF Is(inner, "sym", "@") \/ Is(inner, "sym", "$")
                       THEN Rule_jp_filter_query(inner, FALSE)
                       ELSE Rule_jp_function(inner)} }) :
          inner \in {IF Is(tokens, "sym", "!") THEN Tail(tokens) ELSE tokens} })

\* paren_expr | comparison_expr | test_expr
Rule_jp_basic(tokens) ==
    CASE Rule_jp_paren(tokens).kind = "Ok" -> Rule_jp_paren(tokens)
      [] Rule_jp_comparison(tokens).kind = "Ok" -> Rule_jp_comparison(tokens)
      [] OTHER -> Rule_jp_test(tokens)

\* logical_or_expr (op "||"): logical_and_expr ("||" logical_and_expr)*, and
\* logical_and_expr (op "&&"): basic_expr ("&&" basic_expr)*
Rule_jp_logical(op, tokens, operands) ==
    Let({ IF operand.kind # "Ok" THEN operand
          ELSE IF Is(operand.rest, "sym", op)
          THEN Rule_jp_logical(op, Tail(operand.rest), Append(operands, operand.value))
          ELSE Ok(Pair(IF op = "||" THEN "logical_or_expr" ELSE "logical_and_expr",
                       <<>>, Append(operands, operand.value)), operand.rest) :
          operand \in {IF op = "||" THEN Rule_jp_logical("&&", tokens, <<>>)
                       ELSE Rule_jp_basic(tokens)} })

\* The EOI pair of the pairs of a path, where the grammar yields one
EoiOf(pairs) ==
    IF pairs # <<>> /\ pairs[Len(pairs)].rule = "EOI" THEN <<pairs[Len(pairs)]>> ELSE <<>>

\* "$" segments, up to the end of input: the segments and `eoi`, or a
\* failure
Rule_jsonpath(tokens, eoi) ==
    IF ~Is(tokens, "sym", "$") THEN NoMatch
    ELSE Let({ IF segments.kind = "Ok" /\ segments.rest = <<>>
               THEN [kind |-> "Ok", pairs |-> segments.value \o eoi]
               ELSE NoMatch :
               segments \in {Rule_jp_segments(Tail(tokens), <<>>)} })

\* Lexer::parse_jsonpath_query on the outcome of
\* Liquid::parse(Rule::_jsonpath, path)
parse_jsonpath_query(source) ==
    IF source.kind # "Ok" THEN SyntaxError ELSE QueryParser_parse(source.pairs)

\* `$['name']` for names with an escaped quote, an escaped backslash, both,
\* and none
QuotedNameInputs ==
    { <<Bracketed("child_segment", <<Pair(rule, text, <<>>)>>)>> \o tail :
        tail \in {<<>>, <<Pair("EOI", <<>>, <<>>)>>},
        rule \in {"single_quoted", "double_quoted"},
        text \in { <<97>>, <<97, Backslash, SingleQuote, 98>>,
                   <<97, Backslash, Backslash, 98>>, <<Backslash, Backslash>>,
                   <<97, Backslash, LetterN>> } }

CanonInputs == QueryInputs \cup QuotedNameInputs

CanonInit ==
    /\ jp_pairs \in CanonInputs
    /\ jp_query = [kind |-> "None"]
    /\ jp_singular = [kind |-> "None"]
    /\ jp_printed = [kind |-> "None"]
    /\ jp_again = [kind |-> "None"]
    /\ UnescapeIdle
    /\ LexerIdle
    /\ NumberIdle
    /\ StringIdle
    /\ ParseIdle

\* parse_jsonpath_query of the path, and of the printed query
CanonParse ==
    \E first \in BOOLEAN :
        /\ IF first THEN jp_query.kind = "None"
           ELSE jp_printed.kind = "Ok" /\ jp_again.kind = "None"
        /\ \E result \in {parse_jsonpath_query(
                              IF first THEN [kind |-> "Ok", pairs |-> jp_pairs]
                              ELSE Rule_jsonpath(jp_printed.value, EoiOf(jp_pairs)))} :
              IF first THEN jp_query' = result /\ UNCHANGED jp_again
                       ELSE jp_again' = result /\ UNCHANGED jp_query
        /\ UNCHANGED <<jp_pairs, jp_singular, jp_printed>>

\* Query::to_string() of the query returned
PrintQuery ==
    /\ jp_query.kind = "Ok"
    /\ jp_printed.kind = "None"
    /\ jp_printed' = [kind |-> "Ok", value |-> Display_Query(jp_query.value)]
    /\ UNCHANGED <<jp_pairs, jp_query, jp_singular, jp_again>>

CanonNext == (CanonParse \/ PrintQuery) /\ UNCHANGED <<uvars, svars, pvars, lvars, nvars>>

SpecCanon == CanonInit /\ [][CanonNext]_vars

---------------------------------------------------------------------------
(* Number literals: Lexer::parse_number (lexer.rs) and                     *)
(* LiquidParser::parse_number (parser.rs).  A number pair holds an int     *)
(* pair and then optional frac and exp pairs; the text of a pair is a      *)
(* sequence of chars.  An f64 is [neg, man, exp], the value man * 10^exp   *)
(* with its sign bit, man not divisible by 10 (0.0 is man = 0, exp = 0);   *)
(* the literals of the model are short enough to be exact.                 *)

DigitValue ==
    [c \in {"0", "1", "2", "3", "4", "5", "6", "7", "8", "9"} |->
        CASE c = "0" -> 0 [] c = "1" -> 1 [] c = "2" -> 2 [] c = "3" -> 3
          [] c = "4" -> 4 [] c = "5" -> 5 [] c = "6" -> 6 [] c = "7" -> 7
          [] c = "8" -> 8 [] c = "9" -> 9]

IsDigits(cs) == \A k \in 1..Len(cs) : cs[k] \in DOMAIN DigitValue

RECURSIVE DigitsValue(_)
DigitsValue(cs) ==
    IF cs = <<>> THEN 0
    ELSE 10 * DigitsValue(SubSeq(cs, 1, Len(cs) - 1)) + DigitValue[cs[Len(cs)]]

RECURSIVE Pow10(_)
Pow10(k) == IF k = 0 THEN 1 ELSE 10 * Pow10(k - 1)

RECURSIVE F64(_, _, _)
F64(neg, man, exp) ==
    IF man = 0 THEN [neg |-> neg, man |-> 0, exp |-> 0]
    ELSE IF man % 10 = 0 THEN F64(neg, man \div 10, exp + 1)
    ELSE [neg |-> neg, man |-> man, exp |-> exp]

\* The first position of one of the chars cs in s, or Len(s) + 1
RECURSIVE Find(_, _)
Find(s, cs) ==
    IF s = <<>> \/ Head(s) \in cs THEN 1 ELSE 1 + Find(Tail(s), cs)

\* str::parse::<f64>() on the decimal forms: [sign] digits [. digits]
\* [e [sign] digits], with a digit before or after the point
str_parse_f64(n) ==
    LET signed == n # <<>> /\ Head(n) \in {"-", "+"}
        body == IF signed THEN Tail(n) ELSE n
        e == Find(body, {"e", "E"})
        mantissa == SubSeq(body, 1, e - 1)
        exponent == SubSeq(body, e + 1, Len(body))
        point == Find(mantissa, {"."})
        int == SubSeq(mantissa, 1, point - 1)
        frac == SubSeq(mantissa, point + 1, Len(mantissa))
        exp_signed == exponent # <<>> /\ Head(exponent) \in {"-", "+"}
        exp_digits == IF exp_signed THEN Tail(exponent) ELSE exponent
        exp_value == IF exp_signed /\ Head(exponent) = "-"
                     THEN 0 - DigitsValue(exp_digits) ELSE DigitsValue(exp_digits)
    IN  IF /\ IsDigits(int) /\ IsDigits(frac) /\ Len(int) + Len(frac) > 0
           /\ (e <= Len(body) => exp_digits # <<>> /\ IsDigits(exp_digits))
        THEN [kind |-> "Ok",
              value |-> F64(signed /\ Head(n) = "-", DigitsValue(int \o frac),
                            exp_value - Len(frac))]
        ELSE [kind |-> "Err"]

\* `f as i64`: truncation towards zero; an i64 has no sign of its own when
\* it is zero.  (The cast saturates; the literals of the model stay far
\* below 2^63.)
as_i64(f) ==
    LET magnitude == IF f.exp >= 0 THEN f.man * Pow10(f.exp)
                     ELSE f.man \div Pow10(0 - f.exp)
    IN  IF f.neg THEN 0 - magnitude ELSE magnitude

as_str(pair) == Flatten([k \in 1..Len(pair.inner) |-> pair.inner[k].text])

contains(s, c) == \E k \in 1..Len(s) : s[k] = c

\* The text `n` and the flag `is_float` that both parse_number build from
\* the children of the pair: [n, is_float], or Aborted for unreachable!()
number_text(it) ==
    LET second == it[2]
        first_step ==
            IF Len(it) < 2 THEN [n |-> it[1].text, is_float |-> FALSE]
            ELSE IF second.rule = "frac"
                 THEN [n |-> it[1].text \o second.text, is_float |-> TRUE]
            ELSE IF second.rule = "exp"
                 THEN [n |-> it[1].text \o second.text,
                       is_float |-> contains(second.text, "-")]
            ELSE [n |-> <<>>, is_float |-> FALSE]
    IN  IF Len(it) >= 2 /\ second.rule \notin {"frac", "exp"} THEN Aborted
        ELSE IF Len(it) < 3 THEN [kind |-> "Ok"] @@ first_step
        ELSE [kind |-> "Ok", n |-> first_step.n \o it[3].text,
              is_float |-> first_step.is_float \/ contains(it[3].text, "-")]

\* Lexer::parse_number
Lexer_parse_number(expr) ==
    IF as_str(expr) = <<"-", "0">>
    THEN [kind |-> "Ok", value |-> [type |-> "IntegerLiteral", value |-> 0]]
    ELSE Let({ IF t.kind # "Ok" THEN t
               ELSE Let({ IF f.kind # "Ok" THEN SyntaxError
                          ELSE IF t.is_float
                          THEN [kind |-> "Ok",
                                value |-> [type |-> "FloatLiteral", value |-> f.value]]
                          ELSE [kind |-> "Ok",
                                value |-> [type |-> "IntegerLiteral",
                                           value |-> as_i64(f.value)]] :
                          f \in {str_parse_f64(t.n)} }) :
               t \in {number_text(expr.inner)} })

\* LiquidParser::parse_number
parse_number(expr) ==
    IF as_str(expr) = <<"-", "0">>
    THEN [kind |-> "Ok", value |-> [type |-> "Integer", value |-> 0]]
    ELSE Let({ IF t.kind # "Ok" THEN t
               ELSE Let({ IF f.kind # "Ok" THEN SyntaxError
                          ELSE IF t.is_float
                          THEN [kind |-> "Ok",
                                value |-> [type |-> "Float", value |-> f.value]]
                          ELSE [kind |-> "Ok",
                                value |-> [type |-> "Integer",
                                           value |-> as_i64(f.value)]] :
                          f \in {str_parse_f64(t.n)} }) :
               t \in {number_text(expr.inner)} })

\* The number pairs: an int, then an optional frac, then an optional exp
IntTexts == { <<"0">>, <<"-", "0">>, <<"1">>, <<"-", "1">>, <<"2", "0">>, <<"-", "4", "2">> }
FracTexts == { <<".", "0">>, <<".", "5">>, <<".", "0", "5">>, <<".", "5", "0">> }
ExpTexts ==
    { <<"e", "0">>, <<"e", "1">>, <<"E", "2">>, <<"e", "+", "1">>,
      <<"e", "-", "0">>, <<"e", "-", "1">>, <<"E", "-", "2">> }

NumberPairs ==
    { [rule |-> "number",
       inner |-> <<[rule |-> "int", text |-> int]>>
                 \o (IF frac = <<>> THEN <<>> ELSE <<[rule |-> "frac", text |-> frac]>>)
                 \o (IF exp = <<>> THEN <<>> ELSE <<[rule |-> "exp", text |-> exp]>>)] :
      int \in IntTexts, frac \in FracTexts \cup {<<>>}, exp \in ExpTexts \cup {<<>>} }

NumberInit ==
    /\ num_pair \in NumberPairs
    /\ num_out = [kind |-> "None"]
    /\ UnescapeIdle
    /\ StringIdle
    /\ ParseIdle
    /\ QueryIdle
    /\ LexerIdle

\* Both parsers on one number pair
ParseNumber ==
    /\ num_out.kind = "None"
    /\ num_out' = [kind |-> "Done", token |-> Lexer_parse_number(num_pair),
                   primitive |-> parse_number(num_pair)]
    /\ UNCHANGED num_pair

NumberNext == ParseNumber /\ UNCHANGED <<uvars, svars, pvars, qvars, lvars>>

SpecNumber == NumberInit /\ [][NumberNext]_vars

---------------------------------------------------------------------------
(* The Lexer (lexer.rs): tokenize and the functions it calls.  A pair of   *)
(* the markup grammar is [rule, text, inner], inner the child pairs in     *)
(* source order; a WC pair has the text "+", "-", "~" or "".  A Markup or  *)
(* Token is a record with its variant as `type`; spans are left out.       *)

\* The match arms of parse_expr_token for Rule::symbol and
\* Rule::reserved_word
SymbolTokens ==
    [s \in {"==", "!=", "<>", ">=", "<=", ">", "<", ":", "||", "|", ",", "(", ")", "="} |->
        CASE s = "==" -> "Eq" [] s \in {"!=", "<>"} -> "Ne" [] s = ">=" -> "Ge"
          [] s = "<=" -> "Le" [] s = ">" -> "Gt" [] s = "<" -> "Lt"
          [] s = ":" -> "Colon" [] s = "||" -> "DoublePipe" [] s = "|" -> "Pipe"
          [] s = "," -> "Comma" [] s = "(" -> "LeftParen" [] s = ")" -> "RightParen"
          [] s = "=" -> "Assign"]

ReservedWordTokens ==
    [s \in {"true", "false", "and", "or", "in", "not", "contains", "null", "nil",
            "if", "else", "with", "required", "as", "for"} |->
        CASE s = "true" -> "True_" [] s = "false" -> "False_" [] s = "and" -> "And"
          [] s = "or" -> "Or" [] s = "in" -> "In" [] s = "not" -> "Not"
          [] s = "contains" -> "Contains" [] s \in {"null", "nil"} -> "Null"
          [] s = "if" -> "If" [] s = "else" -> "Else" [] s = "with" -> "With"
          [] s = "required" -> "Required" [] s = "as" -> "As" [] s = "for" -> "For"]

\* Result<T, LiquidError>::Ok of an expression
OkValue(v) == [kind |-> "Ok", value |-> v]

\* `f(x)?` followed by Ok(g(value)): the failure of r, or g of its value
Then(r, g(_)) ==
    Let({ IF v.kind # "Ok" THEN [kind |-> v.kind] ELSE OkValue(g(v.value)) : v \in {r} })

\* The query pairs that a token holds: the token itself, or the arguments of
\* a range
QueryPairsOf(pair) ==
    CASE pair.rule = "query" -> <<pair>>
      [] pair.rule = "range" /\ Len(pair.inner) >= 2 -> <<pair.inner[1], pair.inner[2]>>
      [] OTHER -> <<>>

\* Lexer::parse_range_argument; `query` is self.query_parser.parse(..) of the
\* argument, which parse_expr_token computes
parse_range_argument(pair, query) ==
    CASE pair.rule = "number"
            -> Then(Lexer_parse_number(pair), LAMBDA t : t)
      [] pair.rule = "query"
            -> Then(query, LAMBDA q : [type |-> "Query", path |-> q])
      [] pair.rule \in {"string_literal", "multiline_string_literal"}
            -> OkValue([type |-> "StringLiteral", value |-> pair.text])
      [] OTHER -> Aborted                              \* unreachable!()

\* Lexer::parse_range
Lexer_parse_range(expr, queries) ==
    IF Len(expr.inner) < 2 THEN Aborted
    ELSE Then(collect([k \in 1..2 |-> parse_range_argument(expr.inner[k], queries[k])]),
              LAMBDA a : [type |-> "RangeLiteral", start |-> a[1], stop |-> a[2]])

\* Lexer::parse_expr_token; `queries` are the results of
\* self.query_parser.parse(..) for the query pairs of the token
parse_expr_token(pair) ==
    Let({ CASE pair.rule = "symbol"
                  -> IF pair.text \in DOMAIN SymbolTokens
                     THEN OkValue([type |-> SymbolTokens[pair.text]]) ELSE Aborted
            [] pair.rule = "reserved_word"
                  -> IF pair.text \in DOMAIN ReservedWordTokens
                     THEN OkValue([type |-> ReservedWordTokens[pair.text]]) ELSE Aborted
            [] pair.rule \in {"multiline_double_quoted", "double_quoted",
                              "multiline_single_quoted", "single_quoted"}
                  -> Then(unescape(IF pair.rule \in {"multiline_single_quoted",
                                                     "single_quoted"}
                                   THEN replace_escaped_quote(pair.text) ELSE pair.text),
                          LAMBDA v : [type |-> "StringLiteral", value |-> v])
            [] pair.rule = "number" -> Lexer_parse_number(pair)
            [] pair.rule = "range" -> Lexer_parse_range(pair, queries)
            [] pair.rule = "query"
                  -> Then(queries[1], LAMBDA q : [type |-> "Query", path |-> q])
            [] pair.rule = "word" -> OkValue([type |-> "Word", value |-> pair.text])
            [] OTHER -> Aborted :                      \* unreachable!()
          queries \in {[k \in 1..Len(QueryPairsOf(pair)) |->
                           IF QueryPairsOf(pair)[k].rule # "query" THEN Aborted
                           ELSE QueryParser_parse(QueryPairsOf(pair)[k].inner)]} })

\* The pairs that `while it.peek().is_some_and(|p| p.as_rule() != Rule::WC)`
\* takes from position `from` on
RECURSIVE UntilWC(_, _)
UntilWC(it, from) ==
    IF from > Len(it) \/ it[from].rule = "WC" THEN <<>>
    ELSE <<it[from]>> \o UntilWC(it, from + 1)

\* `Whitespace::from_str(it.next().unwrap().as_str())` for the pair at k
NextWhitespace(it, k) ==
    IF k > Len(it) \/ it[k].text \notin {"+", "-", "~", ""} THEN "Abort"
    ELSE Whitespace_from_str(it[k].text)

\* The Result of a function whose whitespace controls are `wcs`: Aborted if
\* reading one of them panics
WithWhitespace(wcs, result) ==
    IF \E k \in 1..Len(wcs) : wcs[k] = "Abort" THEN Aborted ELSE result

\* Lexer::parse_content
parse_content(pair) == OkValue([type |-> "Content", text |-> pair.text])

\* Lexer::parse_raw
Lexer_parse_raw(pair) ==
    Let({ IF Len(it) < 5 THEN Aborted
          ELSE WithWhitespace(<<NextWhitespace(it, 1), NextWhitespace(it, 2),
                                NextWhitespace(it, 4), NextWhitespace(it, 5)>>,
                  OkValue([type |-> "Raw",
                           wc |-> <<NextWhitespace(it, 1), NextWhitespace(it, 2),
                                    NextWhitespace(it, 4), NextWhitespace(it, 5)>>,
                           text |-> it[3].text])) :
          it \in {pair.inner} })

\* Lexer::parse_comment
parse_comment(pair) ==
    Let({ IF Len(it) < 4 THEN Aborted
          ELSE WithWhitespace(<<NextWhitespace(it, 2), NextWhitespace(it, 4)>>,
                  OkValue([type |-> "Comment",
                           wc |-> <<NextWhitespace(it, 2), NextWhitespace(it, 4)>>,
                           hashes |-> it[1].text, text |-> it[3].text])) :
          it \in {pair.inner} })

\* The groups of expression tokens that the functions below hand to
\* parse_expr_token, in the order they do: those of an output, those of a
\* tag, and those of every line statement of a liquid tag
ExprPairs(pair) ==
    CASE pair.rule = "output" -> <<UntilWC(pair.inner, 2)>>
      [] pair.rule = "tag" -> <<UntilWC(pair.inner, 3)>>
      [] pair.rule = "liquid_tag" /\ UntilWC(pair.inner, 2) # <<>>
            -> [k \in 1..Len(pair.inner[2].inner) |->
                   IF pair.inner[2].inner[k].rule = "line_tag"
                   THEN SubSeq(pair.inner[2].inner[k].inner, 2,
                               Len(pair.inner[2].inner[k].inner))
                   ELSE <<>>]
      [] OTHER -> <<>>

\* Lexer::parse_output; `tokens` is the outcome of its loop over
\* parse_expr_token
parse_output(pair, tokens) ==
    Let({ IF NextWhitespace(it, 1) = "Abort" THEN Aborted
          ELSE IF tokens.kind # "Ok" THEN tokens
          ELSE WithWhitespace(<<NextWhitespace(it, 2 + Len(tokens.value))>>,
                  OkValue([type |-> "Output",
                           wc |-> <<NextWhitespace(it, 1),
                                    NextWhitespace(it, 2 + Len(tokens.value))>>,
                           expression |-> tokens.value])) :
          it \in {pair.inner} })

\* Lexer::parse_tag: expression is an Option, None if there is no token;
\* `tokens` is the outcome of its loop over parse_expr_token
parse_tag(pair, tokens) ==
    Let({ IF NextWhitespace(it, 1) = "Abort" \/ Len(it) < 2 THEN Aborted
          ELSE IF tokens.kind # "Ok" THEN tokens
          ELSE WithWhitespace(<<NextWhitespace(it, 3 + Len(tokens.value))>>,
                  OkValue([type |-> "Tag",
                           wc |-> <<NextWhitespace(it, 1),
                                    NextWhitespace(it, 3 + Len(tokens.value))>>,
                           name |-> it[2].text,
                           expression |-> IF tokens.value = <<>> THEN <<>>
                                          ELSE <<tokens.value>>])) :
          it \in {pair.inner} })

\* Lexer::parse_line_statement; `tokens` is the outcome of its loop over
\* parse_expr_token
parse_line_statement(pair, tokens) ==
    CASE pair.rule = "line_tag"
            -> IF pair.inner = <<>> THEN Aborted
               ELSE Then(tokens,
                         LAMBDA v : [type |-> "Tag",
                                     wc |-> <<"Default", "Default">>,
                                     name |-> pair.inner[1].text,
                                     expression |-> IF Len(v) = 0 THEN <<>> ELSE <<v>>])
      [] pair.rule = "line_comment"
            -> IF pair.inner = <<>> THEN Aborted
               ELSE OkValue([type |-> "Comment", wc |-> <<"Default", "Default">>,
                             hashes |-> "#", text |-> pair.inner[1].text])
      [] OTHER -> Aborted                              \* unreachable!()

\* Lexer::parse_line_statements
parse_line_statements(pair, lines) ==
    collect([k \in 1..Len(pair.inner) |-> parse_line_statement(pair.inner[k], lines[k])])

\* Lexer::parse_liquid; `lines` are the outcomes of the token loops of its
\* line statements
parse_liquid(pair, lines) ==
    Let({ Let({ IF NextWhitespace(it, 1) = "Abort" THEN Aborted
                ELSE IF statements.kind # "Ok" THEN statements
                ELSE Let({ WithWhitespace(<<NextWhitespace(it, last)>>,
                              OkValue([type |-> "Lines",
                                       wc |-> <<NextWhitespace(it, 1),
                                                NextWhitespace(it, last)>>,
                                       statements |-> statements.value])) :
                           last \in {IF UntilWC(it, 2) = <<>> THEN 2 ELSE 3} }) :
                statements \in {IF UntilWC(it, 2) = <<>> THEN OkValue(<<>>)
                                ELSE parse_line_statements(it[2], lines)} }) :
          it \in {pair.inner} })

\* Lexer::markup; the token loops of the arm's function are run here, once
\* for every group of ExprPairs
markup(pair) ==
    Let({ CASE pair.rule = "content" -> parse_content(pair)
            [] pair.rule = "raw" -> Lexer_parse_raw(pair)
            [] pair.rule = "comment" -> parse_comment(pair)
            [] pair.rule = "output" -> parse_output(pair, tokens[1])
            [] pair.rule = "tag" -> parse_tag(pair, tokens[1])
            [] pair.rule = "liquid_tag" -> parse_liquid(pair, tokens)
            [] pair.rule = "EOI" -> OkValue([type |-> "EOI"])
            [] OTHER -> Aborted :                      \* unreachable!()
          tokens \in {[g \in 1..Len(ExprPairs(pair)) |->
                          collect([k \in 1..Len(ExprPairs(pair)[g]) |->
                                      parse_expr_token(ExprPairs(pair)[g][k])])]} })

\* Whether the `if` and `endif` tags of `pairs` fail to match, with `open`
\* tags open
RECURSIVE Unmatched(_, _)
Unmatched(pairs, open) ==
    IF pairs = <<>> THEN open # 0
    ELSE IF Head(pairs).rule = "tag" /\ Head(pairs).inner[2].text = "if"
    THEN Unmatched(Tail(pairs), open + 1)
    ELSE IF Head(pairs).rule = "tag" /\ Head(pairs).inner[2].text = "endif"
    THEN open = 0 \/ Unmatched(Tail(pairs), open - 1)
    ELSE Unmatched(Tail(pairs), open)

\* A tokenize that matches blocks: an `if` without `endif` and a stray
\* `endif` are syntax errors
tokenize_matching(source) ==
    IF source.kind # "Ok" \/ Unmatched(source.pairs, 0) THEN SyntaxError
    ELSE collect([k \in 1..Len(source.pairs) |-> markup(source.pairs[k])])

\* Lexer::tokenize on the outcome of Liquid::parse(Rule::markup, source):
\* its pairs, or the failure that map_err turns into a syntax error
tokenize(source) ==
    IF source.kind # "Ok" THEN SyntaxError
    ELSE collect([k \in 1..Len(source.pairs) |-> markup(source.pairs[k])])

\* The pairs of the markup grammar, built as the functions above read them
WC(text) == Pair("WC", text, <<>>)

LexContent(text) == Pair("content", text, <<>>)

LexRaw(wc, text) ==
    Pair("raw", "", <<WC(wc[1]), WC(wc[2]), Pair("raw_text", text, <<>>),
                      WC(wc[3]), WC(wc[4])>>)

LexComment(hashes, wc, text) ==
    Pair("comment", "", <<Pair("hashes", hashes, <<>>), WC(wc[1]),
                          Pair("comment_text", text, <<>>), WC(wc[2])>>)

LexOutput(wc, tokens) == Pair("output", "", <<WC(wc[1])>> \o tokens \o <<WC(wc[2])>>)

LexTag(wc, name, tokens) ==
    Pair("tag", "", <<WC(wc[1]), Pair("name", name, <<>>)>> \o tokens \o <<WC(wc[2])>>)

LineTag(name, tokens) == Pair("line_tag", "", <<Pair("name", name, <<>>)>> \o tokens)

LineComment(text) == Pair("line_comment", "", <<Pair("comment_text", text, <<>>)>>)

LexLiquid(wc, lines) ==
    Pair("liquid_tag", "",
         <<WC(wc[1])>>
         \o (IF lines = <<>> THEN <<>> ELSE <<Pair("line_statements", "", lines)>>)
         \o <<WC(wc[2])>>)

\* Tokens: the queries `a`, `b` and `c`, `if`, `else`, `|`, `=`, 's', 1 and 1.0
Name(name) == Pair("query", name, QueryPair(name).inner)
Reserved(word) == Pair("reserved_word", word, <<>>)
Symbol(text) == Pair("symbol", text, <<>>)
StringS == Pair("single_quoted", <<115>>, <<>>)
NumberOne == [rule |-> "number", text |-> "1",
              inner |-> <<[rule |-> "int", text |-> <<"1">>]>>]

NumberOneDotZero ==
    [rule |-> "number", text |-> "1.0",
     inner |-> <<[rule |-> "int", text |-> <<"1">>], [rule |-> "frac", text |-> <<".", "0">>]>>]

\* Tokens that fail: "\x", a[9007199254740992], a[?count(@.a)] and
\* a[?foo() == true]
FailingTokens ==
    { Pair("double_quoted", <<Backslash, 120>>, <<>>),
      Pair("query", "", QueryPair("a").inner
              \o <<IndexSegment(IntText(FALSE, <<9, 0, 0, 7, 1, 9, 9, 2, 5, 4, 7, 4, 0, 9, 9, 2>>))>>),
      Pair("query", "", QueryPair("a").inner \o FilterQuery(<<<<TestExpr(FALSE, CountA)>>>>)),
      Pair("query", "", QueryPair("a").inner \o CallQuery("foo", <<>>)) }

LineStatements ==
    { <<>>,
      <<LineComment("c")>>,
      <<LineTag("if", <<Name("a")>>), LineTag("echo", <<Name("b")>>), LineTag("endif", <<>>)>>,
      <<LineTag("assign", <<Name("a"), Symbol("="), NumberOne>>), LineComment("c"),
        LineTag("echo", <<Name("a")>>)>> }
    \cup { <<LineTag("echo", <<Name("a"), Symbol("|"), t>>)>> : t \in FailingTokens }

\* The markups a source is made of: balanced or not
MarkupKinds ==
    { LexContent("t"),
      LexRaw(<<"", "-", "~", "+">>, "r"),
      LexComment("#", <<"-", "">>, "c"),
      LexOutput(<<"", "">>, <<Name("a")>>),
      LexOutput(<<"-", "~">>, <<Name("a"), Symbol("|"), Name("b")>>),
      LexOutput(<<"", "">>, <<Name("a"), Reserved("if"), Name("b"), Reserved("else"),
                              Name("c")>>),
      LexOutput(<<"", "">>, <<NumberOneDotZero>>),
      LexTag(<<"", "">>, "if", <<Name("a")>>),
      LexTag(<<"", "">>, "else", <<>>),
      LexTag(<<"-", "+">>, "endif", <<>>),
      LexTag(<<"", "">>, "assign", <<Name("a"), Symbol("="), StringS>>) }
    \cup { LexTag(<<"", "">>, "echo", <<t>>) : t \in FailingTokens }
    \cup { LexLiquid(<<"", "-">>, lines) : lines \in LineStatements }

MaxMarkups == 2

\* The outcomes of Liquid::parse(Rule::markup, source): a grammar failure, or
\* at most MaxMarkups markups and EOI
LexerSources ==
    { [kind |-> "Err"] }
    \cup { [kind |-> "Ok", pairs |-> ms \o <<Pair("EOI", "", <<>>)>>] :
             ms \in UNION { [1..n -> MarkupKinds] : n \in 0..MaxMarkups } }

---------------------------------------------------------------------------
(* The string forms of markups and tokens (markup.rs), as the lexemes of   *)
(* the text written, with the blanks and newlines between them: lexemes    *)
(* with nothing between them are adjacent chars of the text.               *)

Sp == Tok("sp", " ")

Nl == Tok("nl", "\n")

DigitChar == <<"0", "1", "2", "3", "4", "5", "6", "7", "8", "9">>

\* The decimal digits of a natural number
RECURSIVE IntChars(_)
IntChars(n) ==
    IF n < 10 THEN <<DigitChar[n + 1]>>
    ELSE Append(IntChars(n \div 10), DigitChar[(n % 10) + 1])

\* i64::to_string()
i64_to_string(i) == IF i < 0 THEN <<"-">> \o IntChars(0 - i) ELSE IntChars(i)

\* f64::to_string(): the shortest decimal form, with neither an exponent
\* nor a fraction for a whole number, and with the sign of a negative zero
f64_to_string(f) ==
    LET digits == IntChars(f.man)
        padded == [k \in 1..(0 - f.exp + 1 - Len(digits)) |-> "0"] \o digits
    IN  (IF f.neg THEN <<"-">> ELSE <<>>)
        \o (IF f.exp >= 0 THEN digits \o [k \in 1..f.exp |-> "0"]
            ELSE SubSeq(padded, 1, Len(padded) + f.exp) \o <<".">>
                 \o SubSeq(padded, Len(padded) + f.exp + 1, Len(padded)))

\* Query::as_word: Some(name) for one Child segment of one Name selector
as_word(path) ==
    IF Len(path.segments) # 1 THEN <<>>
    ELSE IF path.segments[1].type # "Child" THEN <<>>
    ELSE IF Len(path.segments[1].selectors) # 1 THEN <<>>
    ELSE IF path.segments[1].selectors[1].type # "Name" THEN <<>>
    ELSE <<path.segments[1].selectors[1].name>>

ReservedWordStrings ==
    [t \in {"True_", "False_", "And", "Or", "In", "Not", "Contains", "Null", "If", "Else",
            "With", "Required", "As", "For"} |->
        CASE t = "True_" -> "true" [] t = "False_" -> "false" [] t = "And" -> "and"
          [] t = "Or" -> "or" [] t = "In" -> "in" [] t = "Not" -> "not"
          [] t = "Contains" -> "contains" [] t = "Null" -> "null" [] t = "If" -> "if"
          [] t = "Else" -> "else" [] t = "With" -> "with" [] t = "Required" -> "required"
          [] t = "As" -> "as" [] t = "For" -> "for"]

SymbolStrings ==
    [t \in {"Eq", "Ne", "Ge", "Gt", "Le", "Lt", "Colon", "Pipe", "DoublePipe", "Comma",
            "LeftParen", "RightParen", "Assign"} |->
        CASE t = "Eq" -> "==" [] t = "Ne" -> "!=" [] t = "Ge" -> ">=" [] t = "Gt" -> ">"
          [] t = "Le" -> "<=" [] t = "Lt" -> "<" [] t = "Colon" -> ":" [] t = "Pipe" -> "|"
          [] t = "DoublePipe" -> "||" [] t = "Comma" -> "," [] t = "LeftParen" -> "("
          [] t = "RightParen" -> ")" [] t = "Assign" -> "="]

\* Display for Token and for RangeArgument, whose arms are those of the
\* literals and of Query
RECURSIVE Display_Token(_)
Display_Token(token) ==
    CASE token.type \in DOMAIN ReservedWordStrings
            -> <<Tok("word", ReservedWordStrings[token.type])>>
      [] token.type \in DOMAIN SymbolStrings -> <<Tok("sym", SymbolStrings[token.type])>>
      [] token.type = "StringLiteral" -> <<Tok("quoted", token.value)>>
      [] token.type = "IntegerLiteral" -> <<Tok("num", i64_to_string(token.value))>>
      [] token.type = "FloatLiteral" -> <<Tok("num", f64_to_string(token.value))>>
      [] token.type = "Word" -> <<Tok("word", token.value)>>
      [] token.type = "RangeLiteral"
            -> <<Tok("sym", "(")>> \o Display_Token(token.start) \o <<Tok("sym", "..")>>
               \o Display_Token(token.stop) \o <<Tok("sym", ")")>>
      [] token.type = "Query"
            -> IF as_word(token.path) # <<>> THEN <<Tok("word", as_word(token.path)[1])>>
               ELSE Display_Query(token.path)

\* tokens_string: the string forms joined by a blank
tokens_string(tokens) ==
    join([k \in 1..Len(tokens) |-> Display_Token(tokens[k])], <<Sp>>)

\* tag_as_line_statement: the empty string for what is no Tag
tag_as_line_statement(tag) ==
    IF tag.type # "Tag" THEN <<>>
    ELSE IF tag.expression # <<>>
    THEN <<Tok("word", tag.name), Sp>> \o tokens_string(tag.expression[1])
    ELSE <<Tok("word", tag.name)>>

\* Display for Markup
Display_Markup(m) ==
    CASE m.type = "Content" -> <<Tok("content", m.text)>>
      [] m.type = "Raw"
            -> <<Tok("sym", "{%")>> \o Display_Whitespace(m.wc[1])
               \o <<Sp, Tok("word", "raw"), Sp>> \o Display_Whitespace(m.wc[2])
               \o <<Tok("sym", "%}"), Tok("content", m.text), Tok("sym", "{%")>>
               \o Display_Whitespace(m.wc[3]) \o <<Sp, Tok("word", "endraw"), Sp>>
               \o Display_Whitespace(m.wc[4]) \o <<Tok("sym", "%}")>>
      [] m.type = "Comment"
            -> <<Tok("sym", "{"), Tok("hashes", m.hashes)>> \o Display_Whitespace(m.wc[1])
               \o <<Tok("text", m.text)>> \o Display_Whitespace(m.wc[2])
               \o <<Tok("hashes", m.hashes), Tok("sym", "}")>>
      [] m.type = "Output"
            -> <<Tok("sym", "{{")>> \o Display_Whitespace(m.wc[1]) \o <<Sp>>
               \o join([k \in 1..Len(m.expression) |-> Display_Token(m.expression[k])], <<>>)
               \o <<Sp>> \o Display_Whitespace(m.wc[2]) \o <<Tok("sym", "}}")>>
      [] m.type = "Tag"
            -> <<Tok("sym", "{%")>> \o Display_Whitespace(m.wc[1])
               \o <<Sp, Tok("word", m.name), Sp>>
               \o (IF m.expression # <<>> /\ m.expression[1] # <<>>
                   THEN tokens_string(m.expression[1]) \o <<Sp>> ELSE <<>>)
               \o Display_Whitespace(m.wc[2]) \o <<Tok("sym", "%}")>>
      [] m.type = "Lines"
            -> Let({ <<Tok("sym", "{%")>> \o Display_Whitespace(m.wc[1])
                     \o <<Sp, Tok("word", "liquid"), Sp>>
                     \o (IF lines = <<>> THEN <<>> ELSE lines \o <<Sp>>)
                     \o Display_Whitespace(m.wc[2]) \o <<Tok("sym", "%}")>> :
                     lines \in {join([k \in 1..Len(m.statements) |->
                                         tag_as_line_statement(m.statements[k])], <<Nl>>)} })
      [] m.type = "EOI" -> <<>>

---------------------------------------------------------------------------
(* The recognizer `Liquid::parse(Rule::markup, source)` on a printed       *)
(* source: the productions of the markup grammar that the string forms     *)
(* above reach, with the pairs the Lexer reads.                            *)

\* Chars of words that follow each other with nothing between them are one
\* word; blanks separate and are dropped
RECURSIVE Scan(_)
Scan(ls) ==
    IF ls = <<>> THEN <<>>
    ELSE IF Head(ls).kind = "sp" THEN Scan(Tail(ls))
    ELSE IF Len(ls) >= 2 /\ Head(ls).kind = "word" /\ ls[2].kind = "word"
    THEN Scan(<<Tok("word", ls[1].text \o ls[2].text)>> \o SubSeq(ls, 3, Len(ls)))
    ELSE <<Head(ls)>> \o Scan(Tail(ls))

\* The whitespace control at the head of `ls`, "" if there is none, and
\* what follows it
WcOf(ls) == IF ls # <<>> /\ Head(ls).kind = "wc" THEN Head(ls).text ELSE ""

AfterWc(ls) == IF ls # <<>> /\ Head(ls).kind = "wc" THEN Tail(ls) ELSE ls

\* number: int frac?
NumberOf(chars) ==
    [rule |-> "number", text |-> "",
     inner |-> <<[rule |-> "int", text |-> SubSeq(chars, 1, Find(chars, {"."}) - 1)]>>
               \o (IF Find(chars, {"."}) <= Len(chars)
                   THEN <<[rule |-> "frac",
                           text |-> SubSeq(chars, Find(chars, {"."}), Len(chars))]>>
                   ELSE <<>>)]

IsExprToken(l) ==
    \/ l.kind \in {"word", "num"}
    \/ l.kind = "quoted" /\ QuotedBody(l.text)
    \/ l.kind = "sym" /\ l.text \in DOMAIN SymbolTokens

\* The pair of an expression token: a reserved word, a symbol, a string, a
\* number, or the query of a name
ExprTokenOf(l) ==
    CASE l.kind = "word"
            -> IF l.text \in DOMAIN ReservedWordTokens THEN Reserved(l.text) ELSE Name(l.text)
      [] l.kind = "quoted" -> Pair("single_quoted", l.text, <<>>)
      [] l.kind = "num" -> NumberOf(l.text)
      [] l.kind = "sym" -> Symbol(l.text)

\* The expression tokens at the head of `ls`
RECURSIVE ExprTokens(_)
ExprTokens(ls) ==
    IF ls = <<>> \/ ~IsExprToken(Head(ls)) THEN <<>>
    ELSE <<ExprTokenOf(Head(ls))>> \o ExprTokens(Tail(ls))

\* line_statements of a liquid tag: line_tag (newline line_tag)*, a blank
\* line being no statement
RECURSIVE Markup_rule_lines(_, _)
Markup_rule_lines(ls, lines) ==
    IF ls # <<>> /\ Head(ls).kind = "nl" THEN Markup_rule_lines(Tail(ls), lines)
    ELSE IF ls # <<>> /\ Head(ls).kind = "word"
    THEN Markup_rule_lines(
             SubSeq(ls, 2 + Len(ExprTokens(Tail(ls))), Len(ls)),
             Append(lines, LineTag(Head(ls).text, ExprTokens(Tail(ls)))))
    ELSE [lines |-> lines, rest |-> ls]

\* What closes a markup: wc? close
Closes(ls, close) == Is(AfterWc(ls), "sym", close)

\* raw, after `{% wc raw`
Markup_rule_raw(wc, ls) ==
    Let({ IF /\ Closes(ls, "%}") /\ Len(body) >= 2 /\ body[1].kind = "content"
             /\ Is(Tail(body), "sym", "{%") /\ Is(name, "word", "endraw")
             /\ Closes(Tail(name), "%}")
          THEN Ok(LexRaw(<<wc, WcOf(ls), WcOf(SubSeq(body, 3, Len(body))), WcOf(Tail(name))>>,
                         body[1].text),
                  Tail(AfterWc(Tail(name))))
          ELSE NoMatch :
          body \in {Tail(AfterWc(ls))},
          name \in {AfterWc(SubSeq(Tail(AfterWc(ls)), 3, Len(Tail(AfterWc(ls)))))} })

\* liquid_tag, after `{% wc liquid`
Markup_rule_liquid(wc, ls) ==
    Let({ IF Closes(lines.rest, "%}")
          THEN Ok(LexLiquid(<<wc, WcOf(lines.rest)>>, lines.lines),
                  Tail(AfterWc(lines.rest)))
          ELSE NoMatch :
          lines \in {Markup_rule_lines(ls, <<>>)} })

\* tag, after `{% wc name`
Markup_rule_tag(wc, name, ls) ==
    Let({ IF Closes(rest, "%}")
          THEN Ok(LexTag(<<wc, WcOf(rest)>>, name, ExprTokens(ls)), Tail(AfterWc(rest)))
          ELSE NoMatch :
          rest \in {SubSeq(ls, 1 + Len(ExprTokens(ls)), Len(ls))} })

\* output, after `{{ wc`
Markup_rule_output(wc, ls) ==
    Let({ IF ExprTokens(ls) # <<>> /\ Closes(rest, "}}")
          THEN Ok(LexOutput(<<wc, WcOf(rest)>>, ExprTokens(ls)), Tail(AfterWc(rest)))
          ELSE NoMatch :
          rest \in {SubSeq(ls, 1 + Len(ExprTokens(ls)), Len(ls))} })

\* comment, after `{`
Markup_rule_comment(ls) ==
    Let({ IF /\ ls # <<>> /\ Head(ls).kind = "hashes"
             /\ text # <<>> /\ Head(text).kind = "text"
             /\ close # <<>> /\ close[1] = Head(ls) /\ Is(Tail(close), "sym", "}")
          THEN Ok(LexComment(Head(ls).text, <<WcOf(Tail(ls)), WcOf(Tail(text))>>,
                             Head(text).text),
                  Tail(Tail(close)))
          ELSE NoMatch :
          text \in {IF ls = <<>> THEN <<>> ELSE AfterWc(Tail(ls))},
          close \in {IF ls = <<>> \/ AfterWc(Tail(ls)) = <<>> THEN <<>>
                     ELSE AfterWc(Tail(AfterWc(Tail(ls))))} })

\* One markup at the head of `ls`
Markup_rule_one(ls) ==
    CASE Head(ls).kind = "content" -> Ok(LexContent(Head(ls).text), Tail(ls))
      [] Is(ls, "sym", "{{") -> Markup_rule_output(WcOf(Tail(ls)), AfterWc(Tail(ls)))
      [] Is(ls, "sym", "{") -> Markup_rule_comment(Tail(ls))
      [] Is(ls, "sym", "{%")
            -> Let({ IF name = <<>> \/ Head(name).kind # "word" THEN NoMatch
                     ELSE IF Head(name).text = "raw"
                     THEN Markup_rule_raw(WcOf(Tail(ls)), Tail(name))
                     ELSE IF Head(name).text = "liquid"
                     THEN Markup_rule_liquid(WcOf(Tail(ls)), Tail(name))
                     ELSE Markup_rule_tag(WcOf(Tail(ls)), Head(name).text, Tail(name)) :
                     name \in {AfterWc(Tail(ls))} })
      [] OTHER -> NoMatch

\* markup* EOI
RECURSIVE Markup_rule_all(_, _)
Markup_rule_all(ls, pairs) ==
    IF ls = <<>> THEN [kind |-> "Ok", pairs |-> Append(pairs, Pair("EOI", "", <<>>))]
    ELSE Let({ IF one.kind # "Ok" THEN [kind |-> "Err"]
               ELSE Markup_rule_all(one.rest, Append(pairs, one.value)) :
               one \in {Markup_rule_one(ls)} })

Markup_rule(source) == Markup_rule_all(Scan(source), <<>>)

LexerInit ==
    /\ lx_pairs \in LexerSources
    /\ lx_markups = [kind |-> "None"]
    /\ lx_printed = [kind |-> "None"]
    /\ lx_again = [kind |-> "None"]
    /\ UnescapeIdle
    /\ StringIdle
    /\ ParseIdle
    /\ QueryIdle
    /\ NumberIdle

\* tokenize(source), of the source and of the printed source
Tokenize ==
    \E first \in BOOLEAN :
        /\ IF first THEN lx_markups.kind = "None"
           ELSE lx_printed.kind = "Ok" /\ lx_again.kind = "None"
        /\ \E result \in {tokenize(IF first THEN lx_pairs
                                     ELSE Markup_rule(lx_printed.value))} :
              IF first THEN lx_markups' = result /\ UNCHANGED lx_again
                       ELSE lx_again' = result /\ UNCHANGED lx_markups
        /\ UNCHANGED <<lx_pairs, lx_printed>>

\* The string forms of the markups returned, concatenated
PrintMarkups ==
    /\ lx_markups.kind = "Ok"
    /\ lx_printed.kind = "None"
    /\ lx_printed' = [kind |-> "Ok",
                      value |-> Flatten([k \in 1..Len(lx_markups.value) |->
                                            Display_Markup(lx_markups.value[k])])]
    /\ UNCHANGED <<lx_pairs, lx_markups, lx_again>>

LexerNext == (Tokenize \/ PrintMarkups) /\ UNCHANGED <<uvars, svars, pvars, qvars, nvars>>

SpecLexer == LexerInit /\ [][LexerNext]_vars

---------------------------------------------------------------------------
(* Properties of the query parser.                                         *)

\* The expressions of the Filter selectors of a query
FilterRoots(q) ==
    UNION { { q.segments[k].selectors[j].expression :
                j \in { j \in 1..Len(q.segments[k].selectors) :
                           q.segments[k].selectors[j].type = "Filter" } } :
            k \in { k \in 1..Len(q.segments) : q.segments[k].type # "Eoi" } }

ValueFunctions == {"count", "length", "value"}

\* A comparison, a logical tree of such expressions, a query test, a call
\* of a function that does not return Value, or a Not of one of these
RECURSIVE Compared(_)
Compared(e) ==
    CASE e.type = "Comparison" -> TRUE
      [] e.type = "Logical" -> Compared(e.left) /\ Compared(e.right)
      [] e.type \in {"RelativeQuery", "RootQuery"} -> TRUE
      [] e.type = "Function" -> e.name \notin ValueFunctions
      [] e.type = "Not" -> Compared(e.expression)
      [] OTHER -> FALSE

\* The logical_or_expr pair has, at its top level or in parentheses, a test
\* (bare or negated) of a call of a Value-returning function
RECURSIVE HasUncomparedCall(_)
HasUncomparedCall(or_expr) ==
    \E a \in 1..Len(or_expr.inner) : \E b \in 1..Len(or_expr.inner[a].inner) :
        LET basic == or_expr.inner[a].inner[b]
            last == basic.inner[Len(basic.inner)]
        IN  \/ /\ basic.rule = "test_expr"
               /\ last.rule = "function_expr"
               /\ last.inner[1].text \in ValueFunctions
            \/ basic.rule = "paren_expr" /\ HasUncomparedCall(last)

\* C12: in every Query returned, the root expression of every Filter
\* selector, and of every parenthesised sub-expression, is a Comparison, a
\* Logical tree of comparisons and tests, a query test, a call of a function
\* whose return type is not Value, or a Not of one of these; and a filter
\* with a Value-returning call (count, length, value) left uncompared, bare
\* or under a logical-not, is rejected with a TypeError.
C12_Compared ==
    /\ jp_query.kind = "Ok" => \A e \in FilterRoots(jp_query.value) : Compared(e)
    /\ (jp_pairs \in FilterInputs /\ jp_query.kind # "None"
            /\ HasUncomparedCall(jp_pairs[1].inner[1].inner[1].inner[1]))
        => jp_query.kind = "TypeError"

\* The comparison of `$[?left op right]`, and its operands
ComparisonOf(pairs) == pairs[1].inner[1].inner[1].inner[1].inner[1].inner[1]

\* Every segment of the query is a Child with exactly one selector, a Name
\* or an Index
SingularQuery(q) ==
    \A k \in 1..Len(q.segments) :
        LET segment == q.segments[k]
        IN  /\ segment.type = "Child"
            /\ Len(segment.selectors) = 1
            /\ segment.selectors[1].type \in {"Name", "Index"}

\* The operand is a literal, a singular query, or a call of a function
\* whose registered return type is Value
ComparableOperand(p) ==
    \/ p.rule \in {"true_literal", "false_literal", "null"}
    \/ /\ p.rule \in {"rel_singular_query", "abs_singular_query"}
       /\ \A k \in 1..Len(p.inner) : p.inner[k].rule \in {"name_segment", "index_segment"}
    \/ p.rule = "function_expr" /\ p.inner[1].text \in ValueFunctions

LogicalCall(p) == p.rule = "function_expr" /\ p.inner[1].text \in {"match", "search"}

\* A query is comparable iff it is singular, and is a TypeError otherwise
QueriesComparable ==
    jp_singular.kind = "Ok"
        => assert_comparable([type |-> "RootQuery", query |-> jp_query.value])
             = IF SingularQuery(jp_query.value) THEN [kind |-> "Ok"] ELSE TypeError

\* C13: parse_comparison_expression succeeds iff both operands are
\* comparable: literals, singular queries, and calls of functions whose
\* registered return type is Value; with an operand that is a non-singular
\* query or a call of a function returning Logical (match, search) the
\* result is a TypeError.
C13_Comparable ==
    /\ QueriesComparable
    /\ (jp_pairs \in ComparisonInputs /\ jp_query.kind # "None")
        => LET left == ComparisonOf(jp_pairs).inner[1]
               right == ComparisonOf(jp_pairs).inner[3]
           IN  /\ jp_query.kind = "Ok" <=> (ComparableOperand(left) /\ ComparableOperand(right))
               /\ (LogicalCall(left) \/ LogicalCall(right)) => jp_query.kind = "TypeError"

\* C13, amended: when parse_comparable succeeds on both operands,
\* parse_comparison_expression succeeds iff both are comparable, and is a
\* TypeError otherwise.
C13_ComparableParsed ==
    /\ QueriesComparable
    /\ (jp_pairs \in ComparisonInputs /\ jp_query.kind # "None")
        => LET left == ComparisonOf(jp_pairs).inner[1]
               right == ComparisonOf(jp_pairs).inner[3]
           IN  (parse_comparable(left).kind = "Ok" /\ parse_comparable(right).kind = "Ok")
               => /\ jp_query.kind = "Ok"
                        <=> (ComparableOperand(left) /\ ComparableOperand(right))
                  /\ jp_query.kind \in {"Ok", "TypeError"}
                  /\ (LogicalCall(left) \/ LogicalCall(right)) => jp_query.kind = "TypeError"

\* C13's case: the comparison of a singular query with the result of
\* count() was parsed.
C13_Witness ==
    /\ jp_pairs \in ComparisonInputs
    /\ ComparisonOf(jp_pairs).inner[1].rule = "rel_singular_query"
    /\ ComparisonOf(jp_pairs).inner[3] = CountA
    /\ jp_query.kind = "Ok"
    /\ \E e \in FilterRoots(jp_query.value) :
          e.type = "Comparison" /\ e.left.type = "RelativeQuery" /\ e.right.type = "Function"

\* The call of `$[?f(args) == true]` and of `$[?f(args)]`
CallOf(pairs) ==
    LET basic == ComparisonOf(pairs)
    IN  IF basic.rule = "comparison_expr" THEN basic.inner[1] ELSE basic.inner[Len(basic.inner)]

\* The parameters the functions are declared with
DeclaredParameters ==
    "count" :> <<"Nodes">>
    @@ "length" :> <<"Value">>
    @@ "match" :> <<"Value", "Value">>
    @@ "search" :> <<"Value", "Value">>
    @@ "value" :> <<"Nodes">>

\* The argument satisfies the type: Value is a literal, a singular query or
\* a Value-returning call; Nodes is any query (no function returns Nodes);
\* Logical is a query, a Logical or a Comparison
Satisfies(arg, typ) ==
    CASE typ = "Value"
            -> \/ arg.type \in {"True_", "False_", "Null", "StringLiteral", "Int", "Float"}
               \/ arg.type \in {"RelativeQuery", "RootQuery"} /\ SingularQuery(arg.query)
               \/ arg.type = "Function" /\ arg.name \in ValueFunctions
      [] typ = "Nodes" -> arg.type \in {"RelativeQuery", "RootQuery"}
      [] typ = "Logical"
            -> arg.type \in {"RelativeQuery", "RootQuery", "Logical", "Comparison"}

WellTyped(name, args) ==
    /\ name \in DOMAIN DeclaredParameters
    /\ Len(args) = Len(DeclaredParameters[name])
    /\ \A k \in 1..Len(args) : Satisfies(args[k], DeclaredParameters[name][k])

\* C14: assert_well_typed(name, args) is Ok(args), unchanged, iff the name
\* is one of the five declared functions, the number of arguments is the
\* number of declared parameters and each argument satisfies its declared
\* type; an unknown name is a NameError and every other violation a
\* TypeError. The parse of the call has the same outcome.
C14_WellTyped ==
    (jp_pairs \in FunctionInputs /\ jp_query.kind # "None")
        => LET call == CallOf(jp_pairs)
               name == call.inner[1].text
               args == collect([k \in 1..(Len(call.inner) - 1) |->
                                  parse_function_argument(call.inner[k + 1])])
               typed == assert_well_typed(name, args.value)
           IN  /\ args.kind = "Ok"
               /\ typed.kind = "Ok" <=> WellTyped(name, args.value)
               /\ typed.kind = "Ok" => typed.value = args.value
               /\ typed.kind = "NameError" <=> name \notin DOMAIN DeclaredParameters
               /\ typed.kind \in {"Ok", "NameError", "TypeError"}
               /\ jp_query.kind = typed.kind

\* C14's case: a call of match with a singular query and a Value-returning
\* call was accepted, with its two arguments in the parsed call.
C14_Witness ==
    /\ jp_pairs = CallQuery("match", <<RelA, CountA>>)
    /\ jp_query.kind = "Ok"
    /\ \E e \in FilterRoots(jp_query.value) :
          /\ e.type = "Function" /\ e.name = "match" /\ Len(e.args) = 2
          /\ e.args[1].type = "RelativeQuery" /\ e.args[2].type = "Function"

\* The integer of the table that is written as the text
IntOf(text) == CHOOSE i \in IntTable : IntText(i.neg, i.digits) = text

\* The i64 of an integer of the table
ValueOf(i) == [neg |-> i.neg, mag |-> IF i.digits = <<0>> THEN <<>> ELSE i.digits]

\* -(2^53 - 1) <= v <= 2^53 - 1
InIJsonRange(v) == MagLe(v.mag, IJsonMag)

\* The selectors of the segments of the query
SelectorsOf(q) ==
    UNION { { q.segments[k].selectors[j] : j \in 1..Len(q.segments[k].selectors) } :
            k \in { n \in 1..Len(q.segments) : q.segments[n].type # "Eoi" } }

\* C15: parse_i_json_int of a decimal integer is Ok(i) iff
\* -(2^53 - 1) <= i <= 2^53 - 1 and a SyntaxError otherwise, so the bounds
\* are accepted and 2^53 and -(2^53) rejected; every Index selector and
\* every present start, stop and step of every Slice selector of a parsed
\* query lies in the range.
C15_IJsonRange ==
    /\ (jp_pairs \in IndexInputs /\ jp_query.kind # "None")
        => LET selector == IF jp_pairs[1].rule = "index_segment" THEN jp_pairs[1].inner[1]
                           ELSE jp_pairs[1].inner[1].inner[1]
               i == IntOf(selector.text)
           IN  /\ parse_i_json_int(selector.text)
                    = IF i.in_range THEN [kind |-> "Ok", value |-> ValueOf(i)] ELSE SyntaxError
               /\ jp_query.kind = IF i.in_range THEN "Ok" ELSE "SyntaxError"
               /\ i.in_range
                    => jp_query.value.segments[1].selectors
                         = <<[type |-> "Index", index |-> ValueOf(i)]>>
    /\ (jp_pairs \in SliceInputs /\ jp_query.kind # "None")
        => LET parts == jp_pairs[1].inner[1].inner[1].inner
               in_range == \A k \in 1..Len(parts) : IntOf(parts[k].text).in_range
           IN  /\ jp_query.kind = IF in_range THEN "Ok" ELSE "SyntaxError"
               /\ in_range
                    => \A k \in 1..Len(parts) :
                          jp_query.value.segments[1].selectors[1].bounds[parts[k].rule]
                            = <<ValueOf(IntOf(parts[k].text))>>
    /\ jp_query.kind = "Ok"
        => \A selector \in SelectorsOf(jp_query.value) :
              /\ selector.type = "Index" => InIJsonRange(selector.index)
              /\ selector.type = "Slice"
                    => \A f \in {"start", "stop", "step"} :
                          \A k \in 1..Len(selector.bounds[f]) :
                             InIJsonRange(selector.bounds[f][k])

\* C15's case: `$[-9007199254740991:9007199254740991]` was parsed, with the
\* two bounds of the range as start and stop and no step.
C15_Witness ==
    /\ jp_pairs \in SliceInputs
    /\ jp_query.kind = "Ok"
    /\ jp_query.value.segments[1].selectors[1].bounds
         = [start |-> <<[neg |-> TRUE, mag |-> IJsonMag]>>,
            stop |-> <<[neg |-> FALSE, mag |-> IJsonMag]>>,
            step |-> <<>>]

\* The pair is a segment with exactly one selector, a name or an index,
\* and is not a descendant segment
SingularSegment(p) ==
    \/ p.rule \in {"name_segment", "index_segment"}
    \/ /\ p.rule = "child_segment"
       /\ p.inner[1].rule = "bracketed_selection"
       /\ Len(p.inner[1].inner) = 1
       /\ p.inner[1].inner[1].rule \in {"index_selector", "name_selector"}

\* is_singular on segments that the parser does not build from the pairs of
\* the specification: no selector, and a Name next to an Index
UnparsedSegments ==
    /\ ~is_singular([segments |-> <<[type |-> "Child", selectors |-> <<>>]>>])
    /\ ~is_singular([segments |->
          <<[type |-> "Child",
             selectors |-> <<[type |-> "Name", name |-> NameA],
                             [type |-> "Index", index |-> [neg |-> FALSE, mag |-> <<1>>]]>>]>>])
    /\ ~is_singular([segments |->
          <<[type |-> "Recursive",
             selectors |-> <<[type |-> "Name", name |-> NameA]>>]>>])
    /\ is_singular([segments |->
          <<[type |-> "Child", selectors |-> <<[type |-> "Name", name |-> NameA]>>]>>])

\* C16: is_singular is true iff every segment of the query is a Child with
\* exactly one selector that is a Name or an Index: false with a Recursive
\* segment, with the Eoi marker, with no or several selectors, with a Slice,
\* Wild, Filter or SingularQuery selector, and true for no segments.
C16_Singular ==
    /\ UnparsedSegments
    /\ jp_singular.kind = "Ok"
        => /\ jp_singular.value = SingularQuery(jp_query.value)
           /\ jp_pairs \in SegmentInputs
                => jp_singular.value = \A k \in 1..Len(jp_pairs) : SingularSegment(jp_pairs[k])
           /\ (\E k \in 1..Len(jp_query.value.segments) :
                  \/ jp_query.value.segments[k].type \in {"Recursive", "Eoi"}
                  \/ Len(jp_query.value.segments[k].selectors) # 1
                  \/ jp_query.value.segments[k].selectors[1].type
                        \in {"Slice", "Wild", "Filter", "SingularQuery"})
                => ~jp_singular.value
           /\ jp_query.value.segments = <<>> => jp_singular.value

\* C16's case: is_singular was true of `$.a[1]`, a Name and then an Index.
C16_Witness ==
    /\ jp_pairs \in SegmentInputs
    /\ jp_singular = [kind |-> "Ok", value |-> TRUE]
    /\ Len(jp_query.value.segments) = 2
    /\ jp_query.value.segments[1].selectors[1].type = "Name"
    /\ jp_query.value.segments[2].selectors[1].type = "Index"

---------------------------------------------------------------------------
(* Properties of the block tags.                                           *)

\* The pair opens a block
StartsBlock(p) ==
    p.rule = "standard_tag" /\ p.name \in {"if", "unless", "for", "case", "capture"}

\* The number of blocks that are open at the k-th pair
Depth(stream, k) ==
    Cardinality({ j \in 1..(k - 1) : StartsBlock(stream[j]) })
    - Cardinality({ j \in 1..(k - 1) : stream[j].rule = "end_tag" })

\* The j-th smallest of a set of positions
Nth(S, j) == CHOOSE x \in S : Cardinality({ y \in S : y < x }) = j - 1

\* The end tag of the block that the first pair opens
BlockEnd(stream) ==
    Nth({ k \in 2..Len(stream) : stream[k].rule = "end_tag" /\ Depth(stream, k) = 1 }, 1)

\* The tags of the given names directly in the block of the first pair
BranchTags(stream, names) ==
    { k \in 2..(BlockEnd(stream) - 1) :
        /\ stream[k].rule = "standard_tag"
        /\ stream[k].name \in names
        /\ Depth(stream, k) = 1 }

\* What identifies a node, and a pair, among the markup of a body: its
\* text for content, its type for a tag
NodeKeys(block) ==
    [k \in 1..Len(block) |->
        IF block[k].type = "Content" THEN <<"Content", block[k].text>> ELSE <<block[k].type>>]

NodeTypes ==
    "if" :> "IfTag" @@ "unless" :> "UnlessTag" @@ "for" :> "ForTag" @@ "case" :> "CaseTag"
    @@ "capture" :> "CaptureTag"

\* The keys of the markup between the a-th pair and the next branch or end
\* tag of the block
SourceKeys(stream, a, branches) ==
    LET b == Nth({ k \in branches \cup {BlockEnd(stream)} : k > a }, 1)
        P == { k \in (a + 1)..(b - 1) :
                 Depth(stream, k) = 1 /\ (stream[k].rule = "content" \/ StartsBlock(stream[k])) }
    IN  [j \in 1..Cardinality(P) |->
           IF stream[Nth(P, j)].rule = "content"
           THEN <<"Content", stream[Nth(P, j)].text>>
           ELSE <<NodeTypes[stream[Nth(P, j)].name]>>]

\* A template was parsed whose first markup is a tag of one of the names
ParsedBlock(names) ==
    /\ template.kind = "Ok"
    /\ src_pairs[1].rule = "standard_tag"
    /\ src_pairs[1].name \in names

\* C17: of an if or unless block that parses, alternatives holds exactly the
\* elsif branches in source order, each with its condition and body;
\* default is Some iff an else tag stands after the last elsif and before
\* the end tag; the bodies of the main branch, of each elsif and of the else
\* are the consecutive pieces of the source between these tags, in order.
C17_Branches ==
    ParsedBlock({"if", "unless"})
        => LET node == template.value.liquid[1]
               elsifs == BranchTags(src_pairs, {"elsif"})
               elses == BranchTags(src_pairs, {"else"})
               branches == elsifs \cup elses
           IN  /\ node.type = NodeTypes[src_pairs[1].name]
               /\ NodeKeys(node.block) = SourceKeys(src_pairs, 1, branches)
               /\ Len(node.alternatives) = Cardinality(elsifs)
               /\ \A j \in 1..Len(node.alternatives) :
                     /\ node.alternatives[j].condition
                          = parse_boolean_expression(src_pairs[Nth(elsifs, j)].inner[1]).value
                     /\ NodeKeys(node.alternatives[j].block)
                          = SourceKeys(src_pairs, Nth(elsifs, j), branches)
               /\ node.default # <<>> <=> \E l \in elses : \A e \in elsifs : e < l
               /\ node.default # <<>>
                    => /\ Cardinality(elses) = 1
                       /\ NodeKeys(node.default[1].block)
                            = SourceKeys(src_pairs, Nth(elses, 1), branches)

\* C17's case: `{% if a %}{% elsif b %}t3{% else %}{% endif %}` was parsed,
\* with one alternative whose body is the text, and an else.
C17_Witness ==
    /\ ParsedBlock({"if"})
    /\ Len(src_pairs) = 6
    /\ src_pairs[2].name = "elsif" /\ src_pairs[3].rule = "content"
    /\ src_pairs[4].name = "else"
    /\ Len(template.value.liquid[1].alternatives) = 1
    /\ NodeKeys(template.value.liquid[1].alternatives[1].block) = <<<<"Content", "t3">>>>
    /\ template.value.liquid[1].default # <<>>

\* A case block and nothing else: markup without tags between the case tag
\* and the first when, else or end tag; then when tags, each with at most a
\* text as body; then at most one else with at most a text; then endcase
CaseBlock(stream) ==
    /\ Len(stream) >= 3
    /\ stream[1].rule = "standard_tag" /\ stream[1].name = "case"
    /\ stream[Len(stream)].rule = "EOI"
    /\ stream[Len(stream) - 1].rule = "end_tag" /\ stream[Len(stream) - 1].name = "case"
    /\ \A k \in 2..(Len(stream) - 2) :
          \/ stream[k].rule \in {"content", "output_statement"}
          \/ stream[k].rule = "standard_tag" /\ stream[k].name \in {"when", "else"}
    /\ \A k \in 2..(Len(stream) - 2) :
          stream[k].rule = "output_statement"
              => \A j \in 2..k : stream[j].rule \in {"content", "output_statement"}
    /\ \A k \in 2..(Len(stream) - 2) :
          (stream[k].rule = "standard_tag" /\ stream[k].name = "else")
              => \A j \in (k + 1)..(Len(stream) - 2) : stream[j].rule = "content"

\* The markup between the case tag and the first when, else or end tag
CasePrefix(stream) ==
    { k \in 2..(Len(stream) - 2) : \A j \in 2..k : stream[j].rule \notin TagRules }

\* The body of the branch at the k-th pair: the text after it, if any
TextAfter(stream, k) ==
    IF stream[k + 1].rule = "content" THEN <<<<"Content", stream[k + 1].text>>>> ELSE <<>>

\* The case block of the source was parsed as the claim has it: the when
\* tags in order with their arguments and bodies, the else iff present
CaseParsed ==
    /\ template.kind = "Ok"
    /\ LET node == template.value.liquid[1]
           whens == { k \in 2..(Len(src_pairs) - 2) :
                        src_pairs[k].rule = "standard_tag" /\ src_pairs[k].name = "when" }
           elses == { k \in 2..(Len(src_pairs) - 2) :
                        src_pairs[k].rule = "standard_tag" /\ src_pairs[k].name = "else" }
       IN  /\ Len(template.value.liquid) = 1
           /\ node.type = "CaseTag"
           /\ Len(node.whens) = Cardinality(whens)
           /\ \A j \in 1..Len(node.whens) :
                 /\ node.whens[j].args
                      = collect([a \in 1..Len(src_pairs[Nth(whens, j)].inner) |->
                                   parse_primitive(src_pairs[Nth(whens, j)].inner[a])]).value
                 /\ NodeKeys(node.whens[j].block) = TextAfter(src_pairs, Nth(whens, j))
           /\ node.default # <<>> <=> elses # {}
           /\ node.default # <<>>
                => NodeKeys(node.default[1].block) = TextAfter(src_pairs, Nth(elses, 1))

\* C18: parse_case_tag succeeds on every case block of zero or more when
\* tags, an optional else and the endcase tag: whens holds the when
\* branches in source order with their arguments in order, default is Some
\* iff an else is present, and the markup between the case tag and the
\* first when, of whatever kind, is dropped without a failure.
C18_CaseBlock ==
    (CaseBlock(src_pairs) /\ template.kind # "None") => CaseParsed

\* The arguments of the for tag of the source
ForTagArguments == IF Len(src_pairs[1].inner) >= 3 THEN src_pairs[1].inner[3].inner ELSE <<>>

\* The primitive given with the name: Some of it, or None
GivenPrimitive(args, name) ==
    IF \E k \in 1..Len(args) : args[k].inner[1].text = name
    THEN <<parse_primitive(
             args[CHOOSE k \in 1..Len(args) : args[k].inner[1].text = name].inner[2]).value>>
    ELSE <<>>

\* C19: for every order of `limit: P`, `offset: P` and the symbol
\* `reversed`, parse_for_tag gives a ForTag with the given primitives as
\* limit and offset (None when absent) and reversed true iff the symbol is
\* there; an argument of another name is a SyntaxError, and so is
\* `reversed` with a value.
C19_ForArguments ==
    (src_pairs \in ForStreams /\ template.kind # "None")
        => LET args == ForTagArguments
           IN  IF \E k \in 1..Len(args) :
                     \/ args[k].inner[1].text \notin {"limit", "offset", "reversed"}
                     \/ args[k].inner[1].text = "reversed" /\ args[k].rule = "keyword_argument"
               THEN template.kind = "SyntaxError"
               ELSE /\ template.kind = "Ok"
                    /\ template.value.liquid[1].type = "ForTag"
                    /\ template.value.liquid[1].limit = GivenPrimitive(args, "limit")
                    /\ template.value.liquid[1].offset = GivenPrimitive(args, "offset")
                    /\ template.value.liquid[1].reversed
                         = \E k \in 1..Len(args) : args[k].inner[1].text = "reversed"

\* C19's case: `{% for a in items reversed, offset: true, limit: b %}` was
\* parsed, with the three arguments in the ForTag.
C19_Witness ==
    /\ src_pairs \in ForStreams
    /\ Len(ForTagArguments) = 3
    /\ ForTagArguments[1].inner[1].text = "reversed"
    /\ ForTagArguments[2].inner[1].text = "offset"
    /\ template.kind = "Ok"
    /\ template.value.liquid[1].reversed
    /\ template.value.liquid[1].offset = <<[type |-> "TrueLiteral"]>>
    /\ template.value.liquid[1].limit # <<>>
    /\ template.value.liquid[1].limit[1].type = "Query"

\* The pairs of the arguments of the include or render tag of the source:
\* of the clause and of the common arguments, each a sequence of at most
\* one pair
IncludeClause ==
    IF Len(src_pairs[1].inner) < 2 THEN <<>>
    ELSE SelectSeq(src_pairs[1].inner[2].inner,
                   LAMBDA p : p.rule \in {"include_with", "include_for"})

IncludeCommon ==
    IF Len(src_pairs[1].inner) < 2 THEN <<>>
    ELSE SelectSeq(src_pairs[1].inner[2].inner, LAMBDA p : p.rule = "common_arguments")

\* The argument of a common-arguments list as the tag holds it
CommonArgument(p) ==
    IF p.rule = "keyword_argument"
    THEN [value |-> <<parse_primitive(p.inner[2]).value>>, name |-> <<p.inner[1].text>>]
    ELSE [value |-> <<parse_primitive(p.inner[1]).value>>, name |-> <<>>]

\* C20: for an include or render tag, `with P [as ID]` gives repeat = false,
\* variable = P and alias = ID, `for P [as ID]` the same with repeat = true;
\* a common-arguments list, after either clause or alone, is args in source
\* order; without clause and arguments repeat is false and variable, alias
\* and args are None.
C20_IncludeArguments ==
    (src_pairs \in IncludeStreams /\ template.kind # "None")
        => /\ template.kind = "Ok"
           /\ LET node == template.value.liquid[1]
              IN  /\ node.type = IF src_pairs[1].name = "include" THEN "IncludeTag"
                                 ELSE "RenderTag"
                  /\ node.repeat = (IncludeClause # <<>> /\ IncludeClause[1].rule = "include_for")
                  /\ node.variable
                       = IF IncludeClause = <<>> THEN <<>>
                         ELSE <<parse_primitive(IncludeClause[1].inner[1]).value>>
                  /\ node.alias
                       = IF IncludeClause = <<>> \/ Len(IncludeClause[1].inner) < 2 THEN <<>>
                         ELSE <<IncludeClause[1].inner[2].text>>
                  /\ node.args
                       = IF IncludeCommon = <<>> THEN <<>>
                         ELSE <<[k \in 1..Len(IncludeCommon[1].inner) |->
                                    CommonArgument(IncludeCommon[1].inner[k])]>>

\* C20's case: `{% include 'a' for b as p k: c, 'a' %}` was parsed, with
\* repeat set, the variable, the alias and the two arguments in order.
C20_Witness ==
    /\ src_pairs \in IncludeStreams
    /\ src_pairs[1].name = "include"
    /\ template.kind = "Ok"
    /\ template.value.liquid[1].repeat
    /\ template.value.liquid[1].variable # <<>>
    /\ template.value.liquid[1].variable[1].type = "Query"
    /\ template.value.liquid[1].alias = <<"p">>
    /\ template.value.liquid[1].args # <<>>
    /\ Len(template.value.liquid[1].args[1]) = 2
    /\ template.value.liquid[1].args[1][1].name = <<"k">>
    /\ template.value.liquid[1].args[1][2].name = <<>>

---------------------------------------------------------------------------
(* Properties of the number literals.                                      *)

HasFrac(pair) == \E k \in 1..Len(pair.inner) : pair.inner[k].rule = "frac"

ExpHasMinus(pair) ==
    \E k \in 1..Len(pair.inner) :
        pair.inner[k].rule = "exp" /\ contains(pair.inner[k].text, "-")

IsNegativeZero(number) ==
    number.type \in {"FloatLiteral", "Float"} /\ number.value.man = 0 /\ number.value.neg

\* What C23 says of one result of parse_number on a pair
NumberShape(pair, result, float, integer) ==
    /\ result.kind = "Ok"
    /\ result.value.type = (IF HasFrac(pair) \/ ExpHasMinus(pair) THEN float ELSE integer)
    /\ as_str(pair) = <<"-", "0">> => result.value.value = 0
    /\ ~IsNegativeZero(result.value)

\* C23: parse_number yields a float iff the literal has a fractional part
\* or its exponent contains `-`, and otherwise an integer; the literal `-0`
\* yields integer 0, and no number literal yields a negative zero.
C23_NumberShape ==
    num_out.kind = "Done" =>
        /\ NumberShape(num_pair, num_out.token, "FloatLiteral", "IntegerLiteral")
        /\ NumberShape(num_pair, num_out.primitive, "Float", "Integer")

\* The classification of C23 alone, which holds: float iff a fractional
\* part or a `-` in the exponent, and `-0` is integer 0.
C23_Classified ==
    num_out.kind = "Done" =>
        /\ num_out.token.kind = "Ok" /\ num_out.primitive.kind = "Ok"
        /\ (num_out.token.value.type = "FloatLiteral")
              <=> (HasFrac(num_pair) \/ ExpHasMinus(num_pair))
        /\ (num_out.primitive.value.type = "Float")
              <=> (HasFrac(num_pair) \/ ExpHasMinus(num_pair))
        /\ num_out.token.value.type \in {"FloatLiteral", "IntegerLiteral"}
        /\ num_out.primitive.value.type \in {"Float", "Integer"}
        /\ as_str(num_pair) = <<"-", "0">> =>
              num_out.token.value.value = 0 /\ num_out.primitive.value.value = 0

\* The literal -0.0 parsed to a float whose value is negative zero
C23_NegativeZero ==
    /\ num_out.kind = "Done"
    /\ as_str(num_pair) = <<"-", "0", ".", "0">>
    /\ IsNegativeZero(num_out.token.value)
    /\ IsNegativeZero(num_out.primitive.value)

---------------------------------------------------------------------------
(* Properties of the liquid tag and of the Lexer.                          *)

BlockTypes == {"IfTag", "UnlessTag", "ForTag", "CaseTag", "CaptureTag"}

\* The elsif, else and when branches of a block node
BranchesOf(node) ==
    CASE node.type \in {"IfTag", "UnlessTag"} -> node.alternatives \o node.default
      [] node.type = "ForTag" -> node.default
      [] node.type = "CaseTag" -> node.whens \o node.default
      [] OTHER -> <<>>

\* Every WhitespaceControl of a tag node: its own (two for a block tag) and
\* those of its branches
ControlsOf(node) ==
    (IF node.type \in BlockTypes THEN node.whitespace_control
     ELSE <<node.whitespace_control>>)
    \o [k \in 1..Len(BranchesOf(node)) |-> BranchesOf(node)[k].whitespace_control]

AllMinus(node) ==
    \A k \in 1..Len(ControlsOf(node)) :
        ControlsOf(node)[k].left = "Minus" /\ ControlsOf(node)[k].right = "Minus"

\* The nodes, at every depth, inside the liquid tags of the template
LineNodes ==
    AllNodes(Flatten([k \in 1..Len(template.value.liquid) |->
                        IF template.value.liquid[k].type = "LiquidTag"
                        THEN template.value.liquid[k].block ELSE <<>>]))

\* The tags that Lexer::parse_line_statement made, over all Lines markups
LineTags ==
    Flatten([k \in 1..Len(lx_markups.value) |->
               IF lx_markups.value[k].type = "Lines"
               THEN SelectSeq(lx_markups.value[k].statements,
                              LAMBDA m : m.type = "Tag")
               ELSE <<>>])

\* The part of C21 on LiquidParser::parse: every control of every node
\* inside a liquid tag is (Minus, Minus)
C21_ParserMinus ==
    template.kind = "Ok" => \A k \in 1..Len(LineNodes) : AllMinus(LineNodes[k])

\* A liquid tag parsed to a block tag with a branch, or to a block tag
\* inside another
C21_ParserNested ==
    /\ template.kind = "Ok"
    /\ \/ \E k \in 1..Len(LineNodes) : Len(BranchesOf(LineNodes[k])) >= 2
       \/ \E k \in 1..Len(LineNodes) :
             \E c \in 1..Len(Children(LineNodes[k])) :
                 Children(LineNodes[k])[c].type \in BlockTypes

\* C21: every tag produced from a line statement inside a liquid block has
\* Minus on every whitespace-control side: the nodes LiquidParser::parse
\* builds (inline tags, both controls of block tags, every elsif, else and
\* when branch, at every depth) and the tags Lexer::tokenize builds.
C21_LineMinus ==
    /\ C21_ParserMinus
    /\ lx_markups.kind = "Ok" =>
          \A k \in 1..Len(LineTags) : LineTags[k].wc = <<"Minus", "Minus">>

IsLiquidSource == Len(src_pairs) = 2 /\ src_pairs[1].name = "liquid"

HasLineComment ==
    \E k \in 1..Len(src_pairs[1].inner) : src_pairs[1].inner[k].rule = "line_comment"

\* The template with the line comments of its liquid tag left out
WithoutLineComments ==
    <<[src_pairs[1] EXCEPT !.inner = SelectSeq(@, LAMBDA p : p.rule # "line_comment")],
      src_pairs[2]>>

\* C22: on a liquid tag whose statements are line tags and `#` line
\* comments, where the line tags alone parse, parse_liquid_tag succeeds and
\* the nodes of the line tags are in the block in source order.
C22_LineComments ==
    (template.kind # "None" /\ IsLiquidSource /\ HasLineComment)
        => Let({ twin.kind = "Ok" =>
                    /\ template.kind = "Ok"
                    /\ SelectSeq(template.value.liquid[1].block,
                                 LAMBDA n : n.type # "Comment")
                          = twin.value.liquid[1].block :
                 twin \in {parse(WithoutLineComments)} })

\* Every liquid tag with a line comment makes the parse abort
C22_CommentAborts ==
    (template.kind # "None" /\ IsLiquidSource /\ HasLineComment)
        => template.kind = "Abort"

---------------------------------------------------------------------------
(* Properties of the printed form of a Query                               *)

\* C24: parsing the printed form of a parsed JSONPath query succeeds and
\* returns a query equal to the first one (spans apart, which the model
\* leaves out), for every query parse_jsonpath_query returns
C24_Canonical ==
    jp_again.kind # "None" => jp_again.kind = "Ok" /\ jp_again.value = jp_query.value

\* The round trip does hold for the queries of indices, comparisons and
\* function calls
C24_PlainRoundTrip ==
    (jp_again.kind # "None"
     /\ jp_pairs \in IndexInputs \cup ComparisonInputs \cup FunctionInputs)
        => jp_again.kind = "Ok" /\ jp_again.value = jp_query.value

---------------------------------------------------------------------------
(* Properties of tokenize                                                  *)

\* The Markup variant that Lexer::markup builds for a pair
MarkupType(pair) ==
    CASE pair.rule = "content" -> "Content"
      [] pair.rule = "raw" -> "Raw"
      [] pair.rule = "comment" -> "Comment"
      [] pair.rule = "output" -> "Output"
      [] pair.rule = "tag" -> "Tag"
      [] pair.rule = "liquid_tag" -> "Lines"
      [] OTHER -> "EOI"

\* The positions of the expression tokens in the pairs of an output or a tag
TokenPositions(pair) ==
    IF pair.rule \notin {"output", "tag"} THEN {}
    ELSE { k \in 1..Len(pair.inner) : pair.inner[k].rule \notin {"WC", "name"} }

\* The line tags of a liquid tag
LineTagsOf(pair) ==
    IF pair.rule # "liquid_tag" \/ Len(pair.inner) < 3 THEN {}
    ELSE { pair.inner[2].inner[k] :
             k \in { k \in 1..Len(pair.inner[2].inner) :
                        pair.inner[2].inner[k].rule = "line_tag" } }

\* The expression tokens of a markup pair that fail
FailingTokensOf(pair) ==
    { t \in { pair.inner[k] : k \in TokenPositions(pair) }
            \cup UNION { { line.inner[k] : k \in 2..Len(line.inner) } :
                         line \in LineTagsOf(pair) } :
        parse_expr_token(t).kind # "Ok" }

\* The tokens of an Output or a Tag: none for the expression None
FlatExpression(m) ==
    IF m.type = "Output" THEN m.expression
    ELSE IF m.expression = <<>> THEN <<>> ELSE m.expression[1]

\* C25: tokenize matches no blocks. For a source the markup grammar accepts,
\* it fails exactly if a token of some markup fails, with the kind of such a
\* token; otherwise it returns one markup per pair, in source order, each of
\* the type of its pair, and only Lines holds markups of its own. A grammar
\* failure is a SyntaxError.
C25_Flat ==
    lx_markups.kind # "None" =>
        IF lx_pairs.kind # "Ok" THEN lx_markups.kind = "SyntaxError"
        ELSE IF \E k \in 1..Len(lx_pairs.pairs) : FailingTokensOf(lx_pairs.pairs[k]) # {}
        THEN \E k \in 1..Len(lx_pairs.pairs) :
                 \E t \in FailingTokensOf(lx_pairs.pairs[k]) :
                     lx_markups.kind = parse_expr_token(t).kind
        ELSE /\ lx_markups.kind = "Ok"
             /\ Len(lx_markups.value) = Len(lx_pairs.pairs)
             /\ \A k \in 1..Len(lx_pairs.pairs) :
                    LET m == lx_markups.value[k]
                        pair == lx_pairs.pairs[k]
                    IN  /\ m.type = MarkupType(pair)
                        /\ m.type = "Content" => m.text = pair.text
                        /\ m.type = "Tag" => m.name = pair.inner[2].text
                        /\ m.type \in {"Tag", "Output"}
                              => Len(FlatExpression(m)) = Cardinality(TokenPositions(pair))
                        /\ m.type # "Lines" => "statements" \notin DOMAIN m
                        /\ m.type = "Lines"
                              => \A j \in 1..Len(m.statements) :
                                     m.statements[j].type \in {"Tag", "Comment"}

\* A stray `endif` followed by an `if` tag that nothing closes is tokenized
C25_Witness ==
    /\ lx_markups.kind = "Ok"
    /\ Len(lx_markups.value) = 3
    /\ lx_markups.value[1].type = "Tag" /\ lx_markups.value[1].name = "endif"
    /\ lx_markups.value[2].type = "Tag" /\ lx_markups.value[2].name = "if"

---------------------------------------------------------------------------
(* Properties of the errors returned                                       *)

\* The outcomes of unescape, unescape_string, parse, parse_jsonpath_query
\* and tokenize so far
ReturnedKinds ==
    {ustate, str_out.kind, template.kind, reparsed.kind, jp_query.kind, jp_again.kind,
     lx_markups.kind, lx_again.kind}

\* C26: every error an operation returns has kind SyntaxError, TypeError or
\* NameError, never ExtError (nor LexerError): an outcome is pending, Ok, a
\* panic, or an error of one of the three kinds
C26_NoExtError ==
    \A kind \in ReturnedKinds :
        \/ kind \in {"Idle", "Run", "None", "Ok", "Abort"}
        \/ kind \in {"SyntaxError", "TypeError", "NameError"}

\* tokenize has returned an error, here for an ill-typed function call
C26_Witness == lx_markups.kind = "TypeError"

---------------------------------------------------------------------------
(* Properties of the string forms of markups                               *)

\* The variants of a markup, of its tokens and of its statements
RECURSIVE Variants(_)
Variants(m) ==
    CASE m.type = "Output"
            -> <<"Output">> \o [k \in 1..Len(m.expression) |-> m.expression[k].type]
      [] m.type = "Tag"
            -> <<"Tag">> \o (IF m.expression = <<>> THEN <<"None">>
                             ELSE [k \in 1..Len(m.expression[1]) |-> m.expression[1][k].type])
      [] m.type = "Lines"
            -> <<"Lines">> \o Flatten([k \in 1..Len(m.statements) |-> Variants(m.statements[k])])
      [] OTHER -> <<m.type>>

\* Equality of two lists of markups: of their variants, and then of their
\* fields
SameMarkups(a, b) ==
    /\ Len(a) = Len(b)
    /\ \A k \in 1..Len(a) : Variants(a[k]) = Variants(b[k])
    /\ a = b

\* C27: tokenize of the printed markups succeeds and returns the markups
\* that were printed (spans apart, which the model leaves out), for every
\* source on which tokenize succeeds
C27_PrintRoundTrip ==
    lx_again.kind # "None"
        => lx_again.kind = "Ok" /\ SameMarkups(lx_again.value, lx_markups.value)

---------------------------------------------------------------------------
(* Properties of the for tag with bare symbols                             *)

IsBare(arg) == arg.rule = "positional_argument" /\ arg.inner[1].text \in {"limit", "offset"}

\* C28: parse_for_tag returns Ok(ForTag) or Err(SyntaxError) for every list
\* of arguments, those with `limit` or `offset` as a bare symbol included:
\* the parse of a template of one for tag is Ok or a SyntaxError
C28_ForResult ==
    template.kind # "None" => template.kind \in {"Ok", "SyntaxError"}

\* What the code does: the parse aborts exactly if a bare `limit` or `offset`
\* comes before every argument that is a syntax error
C28_BareAborts ==
    template.kind # "None" =>
        (template.kind = "Abort"
            <=> \E k \in 1..Len(ForTagArguments) :
                    /\ IsBare(ForTagArguments[k])
                    /\ \A j \in 1..(k - 1) :
                           \/ IsBare(ForTagArguments[j])
                           \/ ForTagArguments[j] \in
                                  {ArgumentPair("limit", <<QueryPair(<<98>>)>>),
                                   ArgumentPair("offset", <<[rule |-> "true_literal",
                                                             text |-> "", inner |-> <<>>]>>),
                                   ArgumentPair("reversed", <<>>)})

---------------------------------------------------------------------------
(* Properties of the cursor                                                *)

\* r is what is left of the stream s after pairs were taken from its head
IsSuffix(r, s) == Len(r) <= Len(s) /\ r = SubSeq(s, Len(s) - Len(r) + 1, Len(s))

\* The streams the cursor can stand at: the template from every pair on
CursorStreams == { SubSeq(src_pairs, k, Len(src_pairs)) : k \in 1..Len(src_pairs) }

\* A block helper that returned Ok left the cursor at `rest`: forward of s,
\* with one pair or more taken for every node of the block, and with a
\* terminating pair at its head
Stopped(b, s) ==
    /\ IsSuffix(b.rest, s)
    /\ Len(b.value) <= Len(s) - Len(b.rest)
    /\ b.rest # <<>>

\* C29: the cursor only moves forward and every iteration takes a pair.
\* From every position of the stream, parse_markup returns what is left
\* after the markup it was given; parse_block, parse_named_block and
\* parse_block_until return, when Ok, a rest that is a suffix of their
\* stream, shorter by at least one pair for every node, whose head is the
\* terminating pair; the when and elsif loops take at least one pair for
\* every branch.
C29_Cursor ==
    template.kind # "None" =>
        \A s \in CursorStreams :
            /\ \A m \in {parse_markup(Head(s), Tail(s))} :
                   m.kind = "Ok" =>
                       /\ IsSuffix(m.rest, Tail(s))
                       /\ m.value.type \in {"IfTag", "UnlessTag"}
                             => Len(m.value.alternatives) < Len(s) - Len(m.rest)
                       /\ m.value.type = "CaseTag"
                             => Len(m.value.whens) < Len(s) - Len(m.rest)
            /\ \A b \in {parse_block(s, "EOI", <<>>)} :
                   b.kind = "Ok" => Stopped(b, s) /\ Head(b.rest).rule = "EOI"
            /\ \A name \in {"if", "unless", "for", "case", "capture"} :
                   /\ \A b \in {parse_named_block(s, name, <<>>)} :
                          b.kind = "Ok" =>
                              /\ Stopped(b, s)
                              /\ Head(b.rest).rule \in {"end_tag", "line_end_tag"}
                              /\ Head(b.rest).name = name
                   /\ \A b \in {parse_block_until(s, standard_tags[name].end, <<>>)} :
                          b.kind = "Ok" =>
                              /\ Stopped(b, s)
                              /\ Head(b.rest).rule \in TagRules
                              /\ Head(b.rest).name \in standard_tags[name].end

\* A template is parsed in which an if tag with an elsif branch holds a
\* block of two nodes
C29_Witness ==
    /\ template.kind = "Ok"
    /\ \E k \in 1..Len(template.value.liquid) :
           /\ template.value.liquid[k].type = "IfTag"
           /\ Len(template.value.liquid[k].alternatives) >= 1
           /\ Len(template.value.liquid[k].block) >= 1

---------------------------------------------------------------------------
(* Properties of the order of the errors of a function call.               *)

\* The error the rules give a call, or Ok: the error of the first argument
\* that is a failing call; else the unknown name; else the number of
\* arguments; else the first argument that does not satisfy its type
RECURSIVE FirstError(_)
FirstError(call) ==
    LET name == call.inner[1].text
        arguments == Tail(call.inner)
        failing == { k \in 1..Len(arguments) :
                       /\ arguments[k].rule = "function_expr"
                       /\ FirstError(arguments[k]).kind # "Ok" }
        unsatisfied == { k \in 1..Len(arguments) :
                           ~Satisfies(parse_function_argument(arguments[k]).value,
                                      DeclaredParameters[name][k]) }
    IN  IF failing # {}
        THEN FirstError(arguments[CHOOSE k \in failing : \A j \in failing : k <= j])
        ELSE IF name \notin DOMAIN DeclaredParameters
        THEN [kind |-> "NameError", message |-> [unknown |-> name]]
        ELSE IF Len(arguments) # Len(DeclaredParameters[name])
        THEN [kind |-> "TypeError",
              message |-> [function |-> name, takes |-> Len(DeclaredParameters[name]),
                           given |-> Len(arguments)]]
        ELSE IF unsatisfied # {}
        THEN LET first == CHOOSE k \in unsatisfied : \A j \in unsatisfied : k <= j
             IN  [kind |-> "TypeError",
                  message |-> [function |-> name, argument |-> first,
                               type |-> DeclaredParameters[name][first]]]
        ELSE [kind |-> "Ok"]

\* C30: the error of a function call that breaks several rules at once is
\* the error of its first failing argument, from left to right and so from
\* the innermost, leftmost failing call; then the NameError of an unknown
\* name; then the TypeError of the number of arguments; then the TypeError
\* of the argument of the lowest index that is not of its type, with that
\* index, counted from 1, in the message. The parse of the query returns
\* that error.
C30_ErrorOrder ==
    (jp_pairs \in FunctionInputs \cup NestedCallInputs /\ jp_query.kind # "None")
        => \A e \in {FirstError(CallOf(jp_pairs))} :
              IF e.kind = "Ok" THEN jp_query.kind = "Ok" ELSE jp_query = e

\* C30's case: `foo(match(length(), foo()), count(true))` breaks all four
\* rules and the error returned is that of `length()`, the innermost,
\* leftmost failing call.
C30_Witness ==
    /\ jp_pairs = CallQuery("foo", <<FunctionExpr("match", <<FunctionExpr("length", <<>>),
                                                             FunctionExpr("foo", <<>>)>>),
                                      FunctionExpr("count", <<TrueLiteral>>)>>)
    /\ jp_query = [kind |-> "TypeError",
                   message |-> [function |-> "length", takes |-> 1, given |-> 0]]

===========================================================================
